---- MODULE Spec2Model ----
(***************************************************************************)
(* Ingestion orchestration of bridgewell_gpt:                              *)
(*   components/ingest/ingest_component.py                                 *)
(*   components/extraction/extraction_component.py                         *)
(*                                                                         *)
(* One ingest call c owns one background thread (save_task) with two       *)
(* branch threads (run_extraction, run_embedding).  Stored artefacts       *)
(* (phase entry, result.json, index nodes) are keyed by document id.       *)
(***************************************************************************)
EXTENDS Integers, Sequences, FiniteSets, TLC

\* ---------------------------------------------------------------- bounds
MaxDocs == 2        \* ingest calls (and document ids) in one behaviour
MaxPolls == 1       \* iterations of the existence poll before its timeout
MaxChunks == 1      \* Document chunks the parser returns for one file
MaxNodes == 1       \* nodes run_transformations yields for one file
MaxMissing == 1     \* missing fields _has_missing_fields can report
MaxFaults == 1      \* abnormal collaborator outcomes in one behaviour
CountWorkers == 2   \* settings.embedding.count_workers
MaxCommands == 4    \* commands put on node_q in the writer's specification
MaxBulkFiles == 42  \* files in the longest list given to bulk_ingest
MaxFields == 25     \* fields of the largest document type schema
MaxDepth == 2       \* nesting depth of the records given to deep_update
MaxFairFiles == 64  \* files given to bulk_ingest under the fair scheduler

\* ------------------------------------------------------ program constants
RagBatchSize == 10  \* batch_size of the simple strategy's RAG loop
DocQCapacity == 20  \* Queue(20) of PipelineIngestComponent.doc_q
NodeQCapacity == 40 \* Queue(40) of PipelineIngestComponent.node_q
NODE_FLUSH_COUNT == 5000

Calls == 1..MaxDocs
Ids == 1..MaxDocs
FileNames == {"policy.pdf"}
BgModes == {"simple", "parallel"}
SyncModes == {"batch", "pipeline"}
DocumentType == "Benefit"

VARIABLES
    mode,        \* settings.embedding.ingest_mode of the component
    faults,      \* abnormal collaborator outcomes so far
    usedIds,     \* ids uuid4 has handed out
    call,        \* per call: "none" | "started" | "returned" | "raised"
    callId,      \* per call: doc_id allocated for its document (0: none yet)
    callFile,    \* per call: file_name argument
    returned,    \* per call: the list ingest returned
    task,        \* per call: position of save_task
    polls,       \* per call: iterations done by wait_for_document_entry
    chunks,      \* per call: len(documents) after parse_documents, -1 before
    docType,     \* per call: documents[*].metadata["document_type"] ("" unset)
    taskFault,   \* per call: where save_task caught an exception
    ext,         \* per call: position of run_extraction
    extRet,      \* per call: status of the dict extract_document returned
    extError,    \* per call: the step whose exception extract_document caught
                 \*           ("error" of the returned dict, "" once it is dropped)
    emb,         \* per call: position of run_embedding
    nodes,       \* per call: len(all_nodes) in run_embedding
    pending,     \* per call: missing fields not yet asked
    answered,    \* per call: fields accumulated in all_rag_results
    entry,       \* per id: the phase tracker holds an entry
    phaseStore,  \* per id: phase stored in the entry
    phaseLog,    \* per id: every update_phase call, in order
    resultFile,  \* per id: extraction_results/<id>/result.json
    ragCalls,    \* per id: the slices of missing_fields given to _extract_with_rag
    reconWrites, \* per id: writes of result.json by the reconciliation block
    index,       \* per id: nodes of that document in the in-memory index
    persisted,   \* per id: nodes of that document in the persisted index
    indexLock,   \* _index_thread_lock: 0 free, else the holding call
    ragLock,     \* _rag_thread_lock: 0 free, else the holding call
    sync,        \* per call: position of a batch or pipeline ingest call
    docQ,        \* pipeline doc_q: commands in FIFO order
    docUnfinished,  \* doc_q.unfinished_tasks
    dispItem,    \* _doc_to_node: 0, or the call whose process command it holds
    sem,         \* doc_semaphore: free permits
    jobs,        \* per call: its units of _doc_to_node_worker running in the pool
    nodeQ,       \* pipeline node_q: commands in FIFO order
    nodeUnfinished, \* node_q.unfinished_tasks
    fileStack,   \* _write_nodes: file_stack (calls whose file is accumulated)
    nodeStack,   \* _write_nodes: node_stack (accumulated nodes per call)
    docStack,    \* _write_nodes: doc_stack (accumulated documents per call)
    del,         \* delete(doc_id): position of the call and the id it removes
    bulk,        \* per call: files of a bulk_ingest call, those taken, those unparsed
    writer,      \* _write_nodes: running, and what its flushes did so far
    pool,        \* the worker pools: the calls made on each, and the component's life
    schemaFields, \* fields of the document type's schema an extraction can miss
    merge        \* deep_update: its arguments and what its calls returned

callVars == <<usedIds, call, callId, callFile, returned>>
taskVars == <<task, polls, chunks, taskFault>>
extVars == <<ext, extRet, extError>>
embVars == <<emb, nodes>>
reconVars == <<pending, answered, ragCalls, reconWrites>>
phaseVars == <<entry, phaseStore, phaseLog>>
indexVars == <<index, persisted>>
lockVars == <<indexLock, ragLock>>
pipeVars == <<docQ, docUnfinished, dispItem, sem, jobs, nodeQ, nodeUnfinished,
              fileStack, nodeStack, docStack>>
syncVars == <<sync, pipeVars>>
\* State only the background strategies touch.
bgVars == <<task, polls, taskFault, docType, extVars, emb, reconVars, phaseVars,
            resultFile, ragLock>>
vars == <<mode, pool, faults, callVars, taskVars, docType, extVars, embVars, reconVars,
          phaseVars, resultFile, indexVars, lockVars, syncVars, del, bulk, writer,
          schemaFields, merge>>

\* result.json: absent, or the record of a completed extraction whose result
\* is empty ({}) or has content; merged counts the fields reconciliation added.
NoFile == [present |-> FALSE, status |-> "", empty |-> TRUE, merged |-> 0]

\* ----------------------------------------------------------- JSON values

\* Keys and scalar values of the records deep_update is given.
Keys == {"a", "b"}
Scalars == {1, 2}

\* A JSON value: a scalar (dict = FALSE) or a dict whose items map keys to
\* JSON values.
Scalar(v) == [dict |-> FALSE, val |-> v, items |-> [k \in {} |-> 0]]
Dict(f) == [dict |-> TRUE, val |-> 0, items |-> f]

\* None, what d.get(k) returns for a key d does not hold.
None == Scalar(0)

RECURSIVE JsonValues(_)
\* The JSON values nested at most n dicts deep.
JsonValues(n) ==
    {Scalar(v) : v \in Scalars} \cup
        (IF n = 0 THEN {}
         ELSE {Dict(f) : f \in UNION {[S -> JsonValues(n - 1)] : S \in SUBSET Keys}})

\* The dicts among them.
JsonDicts(n) == {j \in JsonValues(n) : j.dict}

\* No call of deep_update is being followed.
NoMerge == [pc |-> "idle", d |-> None, u |-> None, once |-> None, twice |-> None]

\* A call that is not a bulk_ingest call has no list of files.
NoBulk == [files |-> 0, done |-> 0, unparsed |-> 0]

\* _write_nodes when its thread starts: the loop runs, nothing was accumulated
\* (taken), passed to insert_nodes (passed), flushed or logged yet.
WriterStarted ==
    [running |-> TRUE, handled |-> 0, flushes |-> 0, reported |-> 0,
     taken |-> [c \in Calls |-> 0], passed |-> [c \in Calls |-> 0]]

\* No delete call is in progress.
NoDelete == [pc |-> "idle", id |-> 0]

\* The worker pools of the components: _ingest_work_pool and
\* _file_to_documents_work_pool (attributes), and the ThreadPool _doc_to_node
\* creates for its workers.
PoolNames == {"ingest_work_pool", "file_to_documents_work_pool", "doc_to_node_pool"}

\* The pools the component built for ingest_mode m creates.
CreatedPools(m) ==
    IF m = "batch" THEN {"file_to_documents_work_pool"}
    ELSE IF m = "parallel" THEN {"ingest_work_pool", "file_to_documents_work_pool"}
    ELSE IF m = "pipeline" THEN {"doc_to_node_pool"}
    ELSE {}

\* A component in use (life "live"): per pool the calls made on it so far,
\* and the statements of __del__ already executed.
NewPools(m) ==
    [life |-> "live", pc |-> 0,
     ops |-> [p \in PoolNames |-> IF p \in CreatedPools(m) THEN <<"create">> ELSE <<>>]]

\* The state of a component after __init__, whatever its strategy, when the
\* index loaded from local_data_path holds the documents whose ids are in S.
LoadedAfter(S, n) ==
    /\ faults = n
    /\ usedIds = S
    /\ call = [c \in Calls |-> "none"]
    /\ callId = [c \in Calls |-> 0]
    /\ callFile = [c \in Calls |-> ""]
    /\ returned = [c \in Calls |-> <<>>]
    /\ task = [c \in Calls |-> "idle"]
    /\ polls = [c \in Calls |-> 0]
    /\ chunks = [c \in Calls |-> -1]
    /\ docType = [c \in Calls |-> ""]
    /\ taskFault = [c \in Calls |-> "none"]
    /\ ext = [c \in Calls |-> "idle"]
    /\ extRet = [c \in Calls |-> ""]
    /\ extError = [c \in Calls |-> ""]
    /\ emb = [c \in Calls |-> "idle"]
    /\ nodes = [c \in Calls |-> 0]
    /\ pending = [c \in Calls |-> 0]
    /\ answered = [c \in Calls |-> 0]
    /\ entry = [i \in Ids |-> FALSE]
    /\ phaseStore = [i \in Ids |-> "none"]
    /\ phaseLog = [i \in Ids |-> <<>>]
    /\ resultFile = [i \in Ids |-> NoFile]
    /\ ragCalls = [i \in Ids |-> <<>>]
    /\ reconWrites = [i \in Ids |-> 0]
    /\ index = [i \in Ids |-> IF i \in S THEN MaxNodes ELSE 0]
    /\ persisted = index
    /\ indexLock = 0
    /\ ragLock = 0
    /\ sync = [c \in Calls |-> "idle"]
    /\ docQ = <<>>
    /\ docUnfinished = 0
    /\ dispItem = 0
    /\ sem = CountWorkers
    /\ jobs = [c \in Calls |-> 0]
    /\ nodeQ = <<>>
    /\ nodeUnfinished = 0
    /\ fileStack = {}
    /\ nodeStack = [c \in Calls |-> 0]
    /\ docStack = [c \in Calls |-> 0]
    /\ del = NoDelete
    /\ bulk = [c \in Calls |-> NoBulk]
    /\ writer = WriterStarted
    /\ pool = NewPools(mode)

\* The component right after construction: no collaborator has failed yet.
Loaded(S) == LoadedAfter(S, 0)

\* The state of a component constructed over an empty index, for a document
\* type whose schema has MaxMissing fields.
Constructed == Loaded({}) /\ schemaFields = MaxMissing /\ merge = NoMerge

\* get_ingestion_component: the class built for settings.embedding.ingest_mode.
get_ingestion_component(m) ==
    IF m = "batch" THEN "BatchIngestComponent"
    ELSE IF m = "parallel" THEN "ParallelizedIngestComponent"
    ELSE IF m = "pipeline" THEN "PipelineIngestComponent"
    ELSE "SimpleIngestComponent"

\* A component of a strategy that processes in the background.
Init ==
    /\ mode \in BgModes
    /\ Constructed

\* A component of a strategy whose ingest does all the work itself.
SyncInit ==
    /\ mode \in SyncModes
    /\ Constructed

\* ------------------------------------------------------------- helpers

\* uuid.uuid4(): an id no earlier call received.
Uuid4 == CHOOSE i \in Ids \ usedIds : \A j \in Ids \ usedIds : i <= j

\* Document(text="", metadata={"file_name": ..., "doc_id": ...}); doc.doc_id = doc_id
StubDocument(f, i) ==
    [text |-> "", doc_id |-> i, metadata |-> [file_name |-> f, doc_id |-> i]]

\* DocumentTypeService().update_document_phase: a write miss without an entry.
UpdatePhase(i, p) ==
    /\ phaseLog' = [phaseLog EXCEPT ![i] = Append(@, p)]
    /\ phaseStore' = IF entry[i] THEN [phaseStore EXCEPT ![i] = p] ELSE phaseStore
    /\ UNCHANGED entry

\* A collaborator (parser, extraction backend, transformations, index, RAG
\* service, file system) behaves abnormally: it raises an exception, the parser
\* returns no chunk, or the extraction backend returns an empty result.
Raise ==
    /\ faults < MaxFaults
    /\ faults' = faults + 1

Id(c) == callId[c]

\* ---------------------------------------------------------- the caller

\* SimpleIngestComponent.ingest / ParallelizedIngestComponent.ingest up to and
\* including thread.start() of _background_save_docs.
IngestCall(c, f) ==
    /\ mode \in BgModes
    /\ pool.life = "live"
    /\ call[c] = "none"
    /\ \A b \in Calls : b < c => call[b] # "none"
    /\ Ids \ usedIds # {}
    /\ LET i == Uuid4 IN
        /\ usedIds' = usedIds \cup {i}
        /\ callId' = [callId EXCEPT ![c] = i]
    /\ call' = [call EXCEPT ![c] = "started"]
    /\ callFile' = [callFile EXCEPT ![c] = f]
    /\ task' = [task EXCEPT ![c] = "poll"]
    /\ UNCHANGED <<syncVars, mode, pool, schemaFields, merge, del, bulk, writer, faults, returned, polls, chunks, taskFault, docType,
                   extVars, embVars, reconVars, phaseVars, resultFile, indexVars,
                   lockVars>>

\* Mutant: ingest joins the background thread before it returns.
MayReturnAfterJoin(c) == call[c] = "started" /\ task[c] = "done"

\* The caller of ingest may receive the return value.
MayReturn(c) == call[c] = "started"

\* return [doc]
IngestReturn(c) ==
    /\ mode \in BgModes
    /\ MayReturn(c)
    /\ call' = [call EXCEPT ![c] = "returned"]
    /\ returned' = [returned EXCEPT ![c] = <<StubDocument(callFile[c], callId[c])>>]
    /\ UNCHANGED <<syncVars, mode, pool, schemaFields, merge, del, bulk, writer, faults, usedIds, callId, callFile, taskVars, docType,
                   extVars, embVars, reconVars, phaseVars, resultFile, indexVars,
                   lockVars>>

\* The document registry creates the phase-tracking entry of a returned handle.
RegisterEntry(c) ==
    /\ call[c] = "returned"
    /\ ~entry[Id(c)]
    /\ entry' = [entry EXCEPT ![Id(c)] = TRUE]
    /\ phaseStore' = [phaseStore EXCEPT ![Id(c)] = "registered"]
    /\ UNCHANGED <<syncVars, mode, pool, schemaFields, merge, del, bulk, writer, faults, callVars, taskVars, docType, extVars, embVars,
                   reconVars, phaseLog, resultFile, indexVars, lockVars>>

\* ------------------------------------------------- save_task (main thread)

\* Mutant: an exhausted poll is fatal, the task goes to its outer handler.
TaskPollFatal(c) ==
    /\ task[c] = "poll"
    /\ \/ /\ entry[Id(c)]
          /\ polls' = [polls EXCEPT ![c] = 0]
          /\ task' = [task EXCEPT ![c] = "phase_parsing"]
          /\ UNCHANGED taskFault
       \/ /\ ~entry[Id(c)]
          /\ polls[c] < MaxPolls
          /\ polls' = [polls EXCEPT ![c] = @ + 1]
          /\ UNCHANGED <<task, taskFault>>
       \/ /\ ~entry[Id(c)]
          /\ polls[c] >= MaxPolls
          /\ polls' = [polls EXCEPT ![c] = 0]
          /\ taskFault' = [taskFault EXCEPT ![c] = "parse"]
          /\ task' = [task EXCEPT ![c] = "outer_except"]
    /\ UNCHANGED <<syncVars, mode, pool, schemaFields, merge, del, bulk, writer, faults, callVars, chunks, docType, extVars,
                   embVars, reconVars, phaseVars, resultFile, indexVars, lockVars>>

\* wait_for_document_entry(doc_id): poll every 0.2 s until found or timed out;
\* save_task ignores the value it returns.
TaskPoll(c) ==
    /\ task[c] = "poll"
    /\ \/ /\ entry[Id(c)]
          /\ polls' = [polls EXCEPT ![c] = 0]
          /\ task' = [task EXCEPT ![c] = "phase_parsing"]
       \/ /\ ~entry[Id(c)]
          /\ polls[c] < MaxPolls
          /\ polls' = [polls EXCEPT ![c] = @ + 1]
          /\ UNCHANGED task
       \/ /\ ~entry[Id(c)]
          /\ polls[c] >= MaxPolls
          /\ polls' = [polls EXCEPT ![c] = 0]
          /\ task' = [task EXCEPT ![c] = "phase_parsing"]
    /\ UNCHANGED <<syncVars, mode, pool, schemaFields, merge, del, bulk, writer, faults, callVars, chunks, taskFault, docType, extVars,
                   embVars, reconVars, phaseVars, resultFile, indexVars, lockVars>>

\* Mutant: the parsing phase is not written before the parse.
TaskPhaseParsingSkipped(c) ==
    /\ task[c] = "phase_parsing"
    /\ task' = [task EXCEPT ![c] = "parse_lock"]
    /\ UNCHANGED <<syncVars, mode, pool, schemaFields, merge, del, bulk, writer, faults, callVars, polls, chunks, taskFault, docType,
                   extVars, embVars, reconVars, phaseVars, resultFile, indexVars,
                   lockVars>>

\* update_phase(doc_id, "parsing")
TaskPhaseParsing(c) ==
    /\ task[c] = "phase_parsing"
    /\ UpdatePhase(Id(c), "parsing")
    /\ task' = [task EXCEPT ![c] = "parse_lock"]
    /\ UNCHANGED <<syncVars, mode, pool, schemaFields, merge, del, bulk, writer, faults, callVars, polls, chunks, taskFault, docType,
                   extVars, embVars, reconVars, resultFile, indexVars, lockVars>>

\* parse_documents: with self._index_thread_lock (acquire)
TaskParseLock(c) ==
    /\ task[c] = "parse_lock"
    /\ indexLock = 0
    /\ indexLock' = c
    /\ task' = [task EXCEPT ![c] = "parse"]
    /\ UNCHANGED <<syncVars, mode, pool, schemaFields, merge, del, bulk, writer, faults, callVars, polls, chunks, taskFault, docType,
                   extVars, embVars, reconVars, phaseVars, resultFile, indexVars,
                   ragLock>>

\* Mutant: no handler around the try body, the exception ends the thread.
OuterHandlerMissing == "done"

\* Where an exception raised in the outer try of save_task is handled.
OuterHandler == "outer_except"

\* Mutant: the lock is released on return only, an exception leaves it held.
WithExitOnReturn(c, raised) == IF raised THEN c ELSE 0

\* Holder of a lock when its with statement is left, by return or by exception.
WithExit(c, raised) == 0

\* parse_documents body: transform_file_into_documents returns the chunks
\* (none for a file without content) or raises; the lock is released either way.
TaskParse(c) ==
    /\ task[c] = "parse"
    /\ indexLock = c
    /\ \/ /\ \E n \in 1..MaxChunks : chunks' = [chunks EXCEPT ![c] = n]
          /\ task' = [task EXCEPT ![c] = "fork"]
          /\ indexLock' = WithExit(c, FALSE)
          /\ UNCHANGED <<taskFault, faults>>
       \/ /\ Raise
          /\ chunks' = [chunks EXCEPT ![c] = 0]
          /\ task' = [task EXCEPT ![c] = "fork"]
          /\ indexLock' = WithExit(c, FALSE)
          /\ UNCHANGED taskFault
       \/ /\ Raise
          /\ taskFault' = [taskFault EXCEPT ![c] = "parse"]
          /\ task' = [task EXCEPT ![c] = OuterHandler]
          /\ indexLock' = WithExit(c, TRUE)
          /\ UNCHANGED chunks
    /\ UNCHANGED <<syncVars, mode, pool, schemaFields, merge, del, bulk, writer, callVars, polls, docType, extVars, embVars, reconVars,
                   phaseVars, resultFile, indexVars, ragLock>>

\* extraction_thread.start(); embedding_thread.start()
TaskFork(c) ==
    /\ task[c] = "fork"
    /\ ext' = [ext EXCEPT ![c] = "phase_ext"]
    /\ emb' = [emb EXCEPT ![c] = IF mode = "parallel" THEN "phase_emb" ELSE "transform"]
    /\ task' = [task EXCEPT ![c] = "join"]
    /\ UNCHANGED <<syncVars, mode, pool, schemaFields, merge, del, bulk, writer, faults, callVars, polls, chunks, taskFault, docType,
                   extRet, extError, nodes, reconVars, phaseVars, resultFile,
                   indexVars, lockVars>>

\* A branch thread has ended: its function returned or an exception ended it.
Terminated(s) == s \in {"done", "failed"}

\* Mutant: only the extraction thread is joined.
JoinedExtractionOnly(c) == Terminated(ext[c])

\* Mutant: only the embedding thread is joined.
JoinedEmbeddingOnly(c) == Terminated(emb[c])

\* extraction_thread.join() and embedding_thread.join() have both returned.
Joined(c) == Terminated(ext[c]) /\ Terminated(emb[c])

\* Mutant: the join re-raises the exception that ended a branch.
TaskJoinReraising(c) ==
    /\ task[c] = "join"
    /\ Joined(c)
    /\ task' = [task EXCEPT ![c] =
            IF extRet[c] = "error" \/ emb[c] = "failed"
            THEN OuterHandler ELSE "phase_rag"]
    /\ UNCHANGED <<syncVars, mode, pool, schemaFields, merge, del, bulk, writer, faults, callVars, polls, chunks, taskFault, docType,
                   extVars, embVars, reconVars, phaseVars, resultFile, indexVars,
                   lockVars>>

\* extraction_thread.join(); embedding_thread.join()
TaskJoin(c) ==
    /\ task[c] = "join"
    /\ Joined(c)
    /\ task' = [task EXCEPT ![c] = "phase_rag"]
    /\ UNCHANGED <<syncVars, mode, pool, schemaFields, merge, del, bulk, writer, faults, callVars, polls, chunks, taskFault, docType,
                   extVars, embVars, reconVars, phaseVars, resultFile, indexVars,
                   lockVars>>

\* update_phase(doc_id, "rag")
TaskPhaseRag(c) ==
    /\ task[c] = "phase_rag"
    /\ UpdatePhase(Id(c), "rag")
    /\ task' = [task EXCEPT ![c] = "rag_lock"]
    /\ UNCHANGED <<syncVars, mode, pool, schemaFields, merge, del, bulk, writer, faults, callVars, polls, chunks, taskFault, docType,
                   extVars, embVars, reconVars, resultFile, indexVars, lockVars>>

\* with self._rag_thread_lock (acquire)
TaskRagLock(c) ==
    /\ task[c] = "rag_lock"
    /\ ragLock = 0
    /\ ragLock' = c
    /\ task' = [task EXCEPT ![c] = "recon_check"]
    /\ UNCHANGED <<syncVars, mode, pool, schemaFields, merge, del, bulk, writer, faults, callVars, polls, chunks, taskFault, docType,
                   extVars, embVars, reconVars, phaseVars, resultFile, indexVars,
                   indexLock>>

\* Mutant: the block has no handler of its own, the outer one catches.
ReconHandlerOuter == "outer_except"

\* Where an exception raised inside the reconciliation block's try is handled.
ReconHandler == "recon_except"

\* Mutant: a result without content is not checked for.
SkipsReconciliationUnlessEmpty(c) ==
    \/ callFile[c] = ""
    \/ docType[c] = ""
    \/ ~resultFile[Id(c)].present

\* The early returns of the block: no file name or no document type in
\* documents[0].metadata, no result file, or a result without content.
SkipsReconciliation(c) ==
    \/ callFile[c] = ""
    \/ docType[c] = ""
    \/ ~resultFile[Id(c)].present
    \/ resultFile[Id(c)].empty

\* len(missing_fields): what _has_missing_fields can report for the schema.
MissingCounts == 0..schemaFields

\* The start of the try block up to "if missing_fields": documents[0] raises
\* IndexError on an empty list; json.load and _has_missing_fields may raise.
TaskReconCheck(c) ==
    /\ task[c] = "recon_check"
    /\ ragLock = c
    /\ IF chunks[c] = 0
       THEN /\ taskFault' = [taskFault EXCEPT ![c] = "recon"]
            /\ task' = [task EXCEPT ![c] = ReconHandler]
            /\ UNCHANGED <<ragLock, pending, faults>>
       ELSE IF SkipsReconciliation(c)
       THEN /\ ragLock' = 0
            /\ task' = [task EXCEPT ![c] = "finally"]
            /\ UNCHANGED <<taskFault, pending, faults>>
       ELSE \/ /\ \E m \in MissingCounts :
                    /\ pending' = [pending EXCEPT ![c] = m]
                    /\ task' = [task EXCEPT ![c] =
                          IF m = 0 THEN "recon_completed" ELSE "recon_query"]
               /\ UNCHANGED <<taskFault, ragLock, faults>>
            \/ /\ Raise
               /\ taskFault' = [taskFault EXCEPT ![c] = "recon"]
               /\ task' = [task EXCEPT ![c] = ReconHandler]
               /\ UNCHANGED <<ragLock, pending>>
    /\ UNCHANGED <<syncVars, mode, pool, schemaFields, merge, del, bulk, writer, callVars, polls, chunks, docType, extVars, embVars,
                   answered, ragCalls, reconWrites, phaseVars, resultFile,
                   indexVars, indexLock>>

Min(a, b) == IF a <= b THEN a ELSE b

\* Fields passed to one _extract_with_rag call: a slice of batch_size fields in
\* the simple strategy, the whole list in the parallel strategy.
BatchLen(n) == IF mode = "simple" THEN Min(n, RagBatchSize) ELSE n

\* The fields of missing_fields (numbered from 1) the next _extract_with_rag
\* call is given: they follow the fields of the calls made so far.
NextSlice(c) ==
    LET asked == IF ragCalls[Id(c)] = <<>> THEN 0
                 ELSE ragCalls[Id(c)][Len(ragCalls[Id(c)])].to
    IN [from |-> asked + 1, to |-> asked + BatchLen(pending[c])]

\* Mutant: the record is rewritten after the first batch.
AfterBatchWrites(remaining) == "recon_write"

\* The for loop over the batches goes on while fields remain; the record is
\* rewritten after the loop.
AfterBatch(remaining) == IF remaining = 0 THEN "recon_write" ELSE "recon_query"

\* Mutant: the answers of every batch are written to the record at once.
TaskReconQueryPersisting(c) ==
    /\ task[c] = "recon_query"
    /\ ragLock = c
    /\ ragCalls' = [ragCalls EXCEPT ![Id(c)] = Append(@, NextSlice(c))]
    /\ \/ /\ \E k \in 0..BatchLen(pending[c]) :
                /\ answered' = [answered EXCEPT ![c] = @ + k]
                /\ resultFile' = [resultFile EXCEPT ![Id(c)].merged = @ + k]
          /\ pending' = [pending EXCEPT ![c] = @ - BatchLen(@)]
          /\ task' = [task EXCEPT ![c] =
                AfterBatch(pending[c] - BatchLen(pending[c]))]
          /\ UNCHANGED <<taskFault, faults>>
       \/ /\ Raise
          /\ taskFault' = [taskFault EXCEPT ![c] = "recon"]
          /\ task' = [task EXCEPT ![c] = ReconHandler]
          /\ pending' = [pending EXCEPT ![c] = 0]
          /\ answered' = [answered EXCEPT ![c] = 0]
          /\ UNCHANGED resultFile
    /\ UNCHANGED <<syncVars, mode, pool, schemaFields, merge, del, bulk, writer, callVars, polls, chunks, docType, extVars, embVars,
                   reconWrites, phaseVars, indexVars, lockVars>>

\* One _extract_with_rag call and the deep_update of its result into the
\* accumulated results; the service may omit fields it cannot answer.
TaskReconQuery(c) ==
    /\ task[c] = "recon_query"
    /\ ragLock = c
    /\ ragCalls' = [ragCalls EXCEPT ![Id(c)] = Append(@, NextSlice(c))]
    /\ \/ /\ \E k \in 0..BatchLen(pending[c]) :
                answered' = [answered EXCEPT ![c] = @ + k]
          /\ pending' = [pending EXCEPT ![c] = @ - BatchLen(@)]
          /\ task' = [task EXCEPT ![c] =
                AfterBatch(pending[c] - BatchLen(pending[c]))]
          /\ UNCHANGED <<taskFault, faults>>
       \/ /\ Raise
          /\ taskFault' = [taskFault EXCEPT ![c] = "recon"]
          /\ task' = [task EXCEPT ![c] = ReconHandler]
          /\ pending' = [pending EXCEPT ![c] = 0]
          /\ answered' = [answered EXCEPT ![c] = 0]
    /\ UNCHANGED <<syncVars, mode, pool, schemaFields, merge, del, bulk, writer, callVars, polls, chunks, docType, extVars, embVars,
                   reconWrites, phaseVars, resultFile, indexVars, lockVars>>

\* What open(result_file, 'w') leaves when json.dump raises before its end: the
\* old content is gone and the new one is incomplete.
Truncated == [present |-> TRUE, status |-> "", empty |-> TRUE, merged |-> 0]

\* final_data = deep_update(extraction_result, all_rag_results); json.dump.
\* An exception is raised before the file is opened, or by json.dump after
\* open has emptied it.
TaskReconWrite(c) ==
    /\ task[c] = "recon_write"
    /\ ragLock = c
    /\ answered' = [answered EXCEPT ![c] = 0]
    /\ \/ /\ resultFile' = [resultFile EXCEPT ![Id(c)] =
                [@ EXCEPT !.merged = @ + answered[c]]]
          /\ reconWrites' = [reconWrites EXCEPT ![Id(c)] = @ + 1]
          /\ task' = [task EXCEPT ![c] = "recon_completed"]
          /\ UNCHANGED <<taskFault, faults>>
       \/ /\ Raise
          /\ taskFault' = [taskFault EXCEPT ![c] = "recon"]
          /\ task' = [task EXCEPT ![c] = ReconHandler]
          /\ \/ UNCHANGED resultFile
             \/ resultFile' = [resultFile EXCEPT ![Id(c)] = Truncated]
          /\ UNCHANGED reconWrites
    /\ UNCHANGED <<syncVars, mode, pool, schemaFields, merge, del, bulk, writer, callVars, polls, chunks, docType, extVars, embVars,
                   pending, ragCalls, phaseVars, indexVars, lockVars>>

\* Mutant: the document is marked completed before its record is rewritten.
TaskReconCompletedFirst(c) ==
    /\ task[c] \in {"recon_write", "recon_completed"}
    /\ task[c] = "recon_write" => ~("completed" \in {phaseLog[Id(c)][k] : k \in 1..Len(phaseLog[Id(c)])})
    /\ ragLock = c
    /\ UpdatePhase(Id(c), "completed")
    /\ ragLock' = IF task[c] = "recon_write" THEN c ELSE 0
    /\ task' = [task EXCEPT ![c] = IF task[c] = "recon_write" THEN @ ELSE "finally"]
    /\ UNCHANGED <<syncVars, mode, pool, schemaFields, merge, del, bulk, writer, faults, callVars, polls, chunks, taskFault, docType,
                   extVars, embVars, reconVars, resultFile, indexVars, indexLock>>

\* update_phase(doc_id, "completed") at the end of the try; the with ends.
TaskReconCompleted(c) ==
    /\ task[c] = "recon_completed"
    /\ ragLock = c
    /\ UpdatePhase(Id(c), "completed")
    /\ ragLock' = 0
    /\ task' = [task EXCEPT ![c] = "finally"]
    /\ UNCHANGED <<syncVars, mode, pool, schemaFields, merge, del, bulk, writer, faults, callVars, polls, chunks, taskFault, docType,
                   extVars, embVars, reconVars, resultFile, indexVars, indexLock>>

\* Mutant: the handler of the reconciliation block records the failure.
ReconExceptPhaseError == "error"

\* Phase written by "except Exception" of the reconciliation block.
ReconExceptPhase == "completed"

\* except Exception inside the with: log, update_phase(...); the with ends.
TaskReconExcept(c) ==
    /\ task[c] = "recon_except"
    /\ ragLock = c
    /\ UpdatePhase(Id(c), ReconExceptPhase)
    /\ ragLock' = 0
    /\ task' = [task EXCEPT ![c] = "finally"]
    /\ UNCHANGED <<syncVars, mode, pool, schemaFields, merge, del, bulk, writer, faults, callVars, polls, chunks, taskFault, docType,
                   extVars, embVars, reconVars, resultFile, indexVars, indexLock>>

\* outer except Exception: update_phase(doc_id, "error")
TaskOuterExcept(c) ==
    /\ task[c] = "outer_except"
    /\ UpdatePhase(Id(c), "error")
    /\ task' = [task EXCEPT ![c] = "finally"]
    /\ UNCHANGED <<syncVars, mode, pool, schemaFields, merge, del, bulk, writer, faults, callVars, polls, chunks, taskFault, docType,
                   extVars, embVars, reconVars, resultFile, indexVars, lockVars>>

\* Mutant: no finally clause, the task ends after its last handler.
TaskFinallyMissing(c) ==
    /\ task[c] = "finally"
    /\ task' = [task EXCEPT ![c] = "done"]
    /\ UNCHANGED <<syncVars, mode, pool, schemaFields, merge, del, bulk, writer, faults, callVars, polls, chunks, taskFault, docType,
                   extVars, embVars, reconVars, phaseVars, resultFile, indexVars,
                   lockVars>>

\* finally: update_phase(doc_id, "completed")
TaskFinally(c) ==
    /\ task[c] = "finally"
    /\ UpdatePhase(Id(c), "completed")
    /\ task' = [task EXCEPT ![c] = "done"]
    /\ UNCHANGED <<syncVars, mode, pool, schemaFields, merge, del, bulk, writer, faults, callVars, polls, chunks, taskFault, docType,
                   extVars, embVars, reconVars, resultFile, indexVars, lockVars>>

\* --------------------------------------------------------- deep_update

\* d.get(k)
Get(d, k) == IF k \in DOMAIN d.items THEN d.items[k] ELSE None

\* d[k] = v
Assign(d, k, v) ==
    Dict([x \in DOMAIN d.items \cup {k} |-> IF x = k THEN v ELSE d.items[x]])

\* Mutant: the overlay's dict always replaces what the base holds.
ReplacesAlways(d, k) == TRUE

\* not isinstance(d.get(k), dict) or not d.get(k)
Replaces(d, k) == ~Get(d, k).dict \/ DOMAIN Get(d, k).items = {}

RECURSIVE DeepUpdate(_, _)
RECURSIVE UpdateItems(_, _, _)
RECURSIVE MergeInto(_, _, _)

\* Mutant: the result of the nested call is bound to d, not to d[k].
MergeIntoRebinds(d, k, v) == DeepUpdate(Get(d, k), v)

\* d[k] = deep_update(d.get(k, {}), v)
MergeInto(d, k, v) == Assign(d, k, DeepUpdate(Get(d, k), v))

\* The body of the loop for one item (k, v) of u.
UpdateItem(d, k, v) ==
    IF v.dict
    THEN IF Replaces(d, k) THEN Assign(d, k, v) ELSE MergeInto(d, k, v)
    ELSE Assign(d, k, v)

\* for k, v in u.items(), over the items whose keys are in ks.
UpdateItems(d, u, ks) ==
    IF ks = {} THEN d
    ELSE LET k == CHOOSE x \in ks : TRUE
         IN UpdateItems(UpdateItem(d, k, u.items[k]), u, ks \ {k})

\* deep_update(d, u): the value it returns (d itself, updated in place).
DeepUpdate(d, u) == IF ~u.dict THEN d ELSE UpdateItems(d, u, DOMAIN u.items)

\* The state of the ingestion itself, which a shutdown leaves alone.
componentVars == <<mode, schemaFields, faults, callVars, taskVars, docType, extVars,
                   embVars, reconVars, phaseVars, resultFile, indexVars, lockVars,
                   syncVars, del, bulk, writer>>

\* Everything a call of deep_update leaves alone.
modelVars == <<componentVars, pool>>

\* deep_update(d, u) is called and returns.
DeepUpdateCall ==
    /\ merge.pc = "args"
    /\ merge' = [merge EXCEPT !.pc = "once", !.once = DeepUpdate(merge.d, merge.u)]
    /\ UNCHANGED modelVars

\* deep_update is called again with what it returned and the same u.
DeepUpdateAgain ==
    /\ merge.pc = "once"
    /\ merge' = [merge EXCEPT !.pc = "twice",
                              !.twice = DeepUpdate(merge.once, merge.u)]
    /\ UNCHANGED modelVars

\* ------------------------------------------------ run_extraction (thread)

\* update_phase(doc_id, "extraction")
ExtPhase(c) ==
    /\ ext[c] = "phase_ext"
    /\ UpdatePhase(Id(c), "extraction")
    /\ ext' = [ext EXCEPT ![c] = "extract"]
    /\ UNCHANGED <<syncVars, mode, pool, schemaFields, merge, del, bulk, writer, faults, callVars, taskVars, docType, extRet, extError, embVars,
                   reconVars, resultFile, indexVars, lockVars>>

\* The record extract_document stores in result.json after a successful
\* benefit_agent.extract: structured data that may be empty.
StoredRecord(isEmpty) ==
    [present |-> TRUE, status |-> "completed", empty |-> isEmpty, merged |-> 0]

\* Mutant: a fault of the extraction cancels the embedding branch.
ExtExtractAborting(c) ==
    /\ ext[c] = "extract"
    /\ \/ /\ resultFile' = [resultFile EXCEPT ![Id(c)] = StoredRecord(FALSE)]
          /\ extRet' = [extRet EXCEPT ![c] = "completed"]
          /\ UNCHANGED <<faults, emb>>
       \/ /\ Raise
          /\ UNCHANGED resultFile
          /\ extRet' = [extRet EXCEPT ![c] = "error"]
          /\ emb' = [emb EXCEPT ![c] = IF Terminated(@) THEN @ ELSE "failed"]
    /\ ext' = [ext EXCEPT ![c] = IF mode = "simple" THEN "phase_emb" ELSE "meta"]
    /\ UNCHANGED <<syncVars, mode, pool, schemaFields, merge, del, bulk, writer, callVars, taskVars, docType, extError, nodes,
                   reconVars, phaseVars, indexVars, lockVars>>

\* The steps of extract_document that precede the write of result.json:
\* building the chunks (51-63), _store_extraction_data (76-81), get_agent or
\* create_agent (89-99), benefit_agent.extract (112).
ExtractSteps == {"chunks", "archive", "agent", "backend"}

\* The step after the write of result.json that can raise: os.unlink of the
\* temporary file in the finally clause (145-147).
CleanupStep == "cleanup"

\* Mutant: result.json is written before any step that can raise.
StoredBeforeAnyStep(step) == TRUE

\* Whether result.json (123-132) is already written when the step raises.
StoredBefore(step) == step = CleanupStep

\* ExtractionComponent.extract_document: the backend's data (possibly empty) is
\* stored and returned with status "completed"; every exception is caught and
\* returned as status "error" with the error text.  The step that raises may
\* precede the write of result.json or follow it.
ExtExtract(c) ==
    /\ ext[c] = "extract"
    /\ \/ /\ resultFile' = [resultFile EXCEPT ![Id(c)] = StoredRecord(FALSE)]
          /\ extRet' = [extRet EXCEPT ![c] = "completed"]
          /\ UNCHANGED <<faults, extError>>
       \/ /\ Raise
          /\ resultFile' = [resultFile EXCEPT ![Id(c)] = StoredRecord(TRUE)]
          /\ extRet' = [extRet EXCEPT ![c] = "completed"]
          /\ UNCHANGED extError
       \/ /\ Raise
          /\ \E step \in ExtractSteps \cup {CleanupStep} :
                /\ resultFile' = IF StoredBefore(step)
                      THEN [resultFile EXCEPT ![Id(c)] = StoredRecord(FALSE)]
                      ELSE resultFile
                /\ extError' = [extError EXCEPT ![c] = step]
          /\ extRet' = [extRet EXCEPT ![c] = "error"]
    /\ ext' = [ext EXCEPT ![c] = IF mode = "simple" THEN "phase_emb" ELSE "meta"]
    /\ UNCHANGED <<syncVars, mode, pool, schemaFields, merge, del, bulk, writer, callVars, taskVars, docType, embVars, reconVars,
                   phaseVars, indexVars, lockVars>>

\* update_phase(doc_id, "embedding") inside run_extraction (simple strategy)
ExtPhaseEmb(c) ==
    /\ ext[c] = "phase_emb"
    /\ UpdatePhase(Id(c), "embedding")
    /\ ext' = [ext EXCEPT ![c] = "meta"]
    /\ UNCHANGED <<syncVars, mode, pool, schemaFields, merge, del, bulk, writer, faults, callVars, taskVars, docType, extRet, extError, embVars,
                   reconVars, resultFile, indexVars, lockVars>>

\* if extraction.get("status") == "completed": doc.metadata[...] = ...; the
\* function returns and the dict with the error text goes out of scope.
ExtMeta(c) ==
    /\ ext[c] = "meta"
    /\ docType' = [docType EXCEPT ![c] =
            IF extRet[c] = "completed" /\ chunks[c] > 0 THEN DocumentType ELSE @]
    /\ extError' = [extError EXCEPT ![c] = ""]
    /\ ext' = [ext EXCEPT ![c] = "done"]
    /\ UNCHANGED <<syncVars, mode, pool, schemaFields, merge, del, bulk, writer, faults, callVars, taskVars, extRet, embVars, reconVars,
                   phaseVars, resultFile, indexVars, lockVars>>

\* ------------------------------------------------- run_embedding (thread)

\* update_phase(doc_id, "embedding") inside run_embedding (parallel strategy)
EmbPhase(c) ==
    /\ emb[c] = "phase_emb"
    /\ UpdatePhase(Id(c), "embedding")
    /\ emb' = [emb EXCEPT ![c] = "transform"]
    /\ UNCHANGED <<syncVars, mode, pool, schemaFields, merge, del, bulk, writer, faults, callVars, taskVars, docType, extVars, nodes,
                   reconVars, resultFile, indexVars, lockVars>>

\* run_transformations over each document; an exception ends the thread.
EmbTransform(c) ==
    /\ emb[c] = "transform"
    /\ \/ /\ \E n \in 0..MaxNodes :
                /\ (chunks[c] = 0) = (n = 0)
                /\ nodes' = [nodes EXCEPT ![c] = n]
          /\ emb' = [emb EXCEPT ![c] = "insert"]
          /\ UNCHANGED faults
       \/ /\ Raise
          /\ emb' = [emb EXCEPT ![c] = "failed"]
          /\ UNCHANGED nodes
    /\ UNCHANGED <<syncVars, mode, pool, schemaFields, merge, del, bulk, writer, callVars, taskVars, docType, extVars, reconVars,
                   phaseVars, resultFile, indexVars, lockVars>>

\* self._index.insert_nodes(node_batch) for every batch
EmbInsert(c) ==
    /\ emb[c] = "insert"
    /\ \/ /\ index' = [index EXCEPT ![Id(c)] = @ + nodes[c]]
          /\ emb' = [emb EXCEPT ![c] = "save"]
          /\ UNCHANGED faults
       \/ /\ Raise
          /\ emb' = [emb EXCEPT ![c] = "failed"]
          /\ UNCHANGED index
    /\ nodes' = [nodes EXCEPT ![c] = 0]
    /\ UNCHANGED <<syncVars, mode, pool, schemaFields, merge, del, bulk, writer, callVars, taskVars, docType, extVars, reconVars,
                   phaseVars, resultFile, persisted, lockVars>>

\* set_document_hash for every document, then self._save_index(): the whole
\* index is written to local_data_path.
EmbSave(c) ==
    /\ emb[c] = "save"
    /\ \/ /\ persisted' = index
          /\ emb' = [emb EXCEPT ![c] = "done"]
          /\ UNCHANGED faults
       \/ /\ Raise
          /\ emb' = [emb EXCEPT ![c] = "failed"]
          /\ UNCHANGED persisted
    /\ UNCHANGED <<syncVars, mode, pool, schemaFields, merge, del, bulk, writer, callVars, taskVars, docType, extVars, nodes, reconVars,
                   phaseVars, resultFile, index, lockVars>>


\* ------------------------------------- BaseIngestComponentWithIndex.delete

\* Holder of the index lock while delete runs (the calls are 1..MaxDocs).
Deleter == MaxDocs + 1

\* Everything delete(doc_id) leaves alone.
ingestVars == <<mode, pool, schemaFields, merge, bulk, writer, callVars, taskVars, docType, extVars, embVars, reconVars,
                phaseVars, resultFile, ragLock, syncVars>>

\* delete(doc_id) for an id handed out by ingest or loaded with the index:
\* with self._index_thread_lock (acquire)
DeleteLock(i) ==
    /\ del.pc = "idle"
    /\ i \in usedIds
    /\ indexLock = 0
    /\ indexLock' = Deleter
    /\ del' = [pc |-> "delete_ref_doc", id |-> i]
    /\ UNCHANGED <<ingestVars, faults, indexVars>>

\* self._index.delete_ref_doc(doc_id, delete_from_docstore=True); an exception
\* leaves the with statement, which releases the lock.
DeleteRefDoc ==
    /\ del.pc = "delete_ref_doc"
    /\ \/ /\ index' = [index EXCEPT ![del.id] = 0]
          /\ del' = [del EXCEPT !.pc = "save_index"]
          /\ UNCHANGED <<faults, indexLock>>
       \/ /\ Raise
          /\ del' = NoDelete
          /\ indexLock' = 0
          /\ UNCHANGED index
    /\ UNCHANGED <<ingestVars, persisted>>

\* self._save_index(), then the with statement releases the lock.
DeleteSaveIndex ==
    /\ del.pc = "save_index"
    /\ \/ /\ persisted' = index
          /\ UNCHANGED faults
       \/ /\ Raise
          /\ UNCHANGED persisted
    /\ del' = NoDelete
    /\ indexLock' = 0
    /\ UNCHANGED <<ingestVars, index>>

\* ------------------------------------------ BatchIngestComponent.ingest

\* The chunks IngestionHelper.transform_file_into_documents returns for a file;
\* the parser, not the orchestrator, gives them their id.
ParsedDocuments(f, i, n) ==
    [k \in 1..n |-> [text |-> "content", doc_id |-> i, metadata |-> [file_name |-> f]]]

\* An exception leaves ingest: the caller gets no return value.
RaiseToCaller(c) ==
    /\ Raise
    /\ call' = [call EXCEPT ![c] = "raised"]
    /\ sync' = [sync EXCEPT ![c] = "done"]

\* transform_file_into_documents in the caller's thread: the chunks of the
\* file (none for a file without content), or an exception.
ParseInCaller(c, next) ==
    /\ sync[c] = "parse"
    /\ Ids \ usedIds # {}
    /\ \/ /\ \E n \in 1..MaxChunks : chunks' = [chunks EXCEPT ![c] = n]
          /\ usedIds' = usedIds \cup {Uuid4}
          /\ callId' = [callId EXCEPT ![c] = Uuid4]
          /\ sync' = [sync EXCEPT ![c] = next]
          /\ UNCHANGED <<faults, call>>
       \/ /\ Raise
          /\ chunks' = [chunks EXCEPT ![c] = 0]
          /\ usedIds' = usedIds \cup {Uuid4}
          /\ callId' = [callId EXCEPT ![c] = Uuid4]
          /\ sync' = [sync EXCEPT ![c] = next]
          /\ UNCHANGED call
       \/ /\ RaiseToCaller(c)
          /\ UNCHANGED <<chunks, usedIds, callId>>

\* BatchIngestComponent.ingest is entered.
BatchIngestCall(c, f) ==
    /\ get_ingestion_component(mode) = "BatchIngestComponent"
    /\ pool.life = "live"
    /\ call[c] = "none"
    /\ \A b \in Calls : b < c => call[b] # "none"
    /\ call' = [call EXCEPT ![c] = "started"]
    /\ callFile' = [callFile EXCEPT ![c] = f]
    /\ sync' = [sync EXCEPT ![c] = "parse"]
    /\ UNCHANGED <<mode, pool, schemaFields, merge, del, bulk, writer, faults, usedIds, callId, returned, chunks, nodes,
                   indexVars, indexLock, pipeVars, bgVars>>

\* documents = IngestionHelper.transform_file_into_documents(...)
BatchParse(c) ==
    /\ get_ingestion_component(mode) = "BatchIngestComponent"
    /\ ParseInCaller(c, "transform")
    /\ UNCHANGED <<mode, pool, schemaFields, merge, del, bulk, writer, callFile, returned, nodes, indexVars, indexLock,
                   pipeVars, bgVars>>

\* _save_docs: nodes = run_transformations(documents, ...)
BatchTransform(c) ==
    /\ sync[c] = "transform"
    /\ \/ /\ \E n \in 0..MaxNodes :
                /\ (chunks[c] = 0) = (n = 0)
                /\ nodes' = [nodes EXCEPT ![c] = n]
          /\ sync' = [sync EXCEPT ![c] = "lock"]
          /\ UNCHANGED <<faults, call>>
       \/ /\ RaiseToCaller(c)
          /\ UNCHANGED nodes
    /\ UNCHANGED <<mode, pool, schemaFields, merge, del, bulk, writer, usedIds, callId, callFile, returned, chunks, indexVars,
                   indexLock, pipeVars, bgVars>>

\* _save_docs: with self._index_thread_lock (acquire)
BatchLock(c) ==
    /\ sync[c] = "lock"
    /\ indexLock = 0
    /\ indexLock' = c
    /\ sync' = [sync EXCEPT ![c] = "insert"]
    /\ UNCHANGED <<mode, pool, schemaFields, merge, del, bulk, writer, faults, callVars, chunks, nodes, indexVars, pipeVars,
                   bgVars>>

\* _save_docs under the lock: insert_nodes for every batch, set_document_hash,
\* _save_index; the with statement releases the lock on every exit.
BatchInsert(c) ==
    /\ sync[c] = "insert"
    /\ indexLock = c
    /\ indexLock' = 0
    /\ nodes' = [nodes EXCEPT ![c] = 0]
    /\ \/ /\ index' = [index EXCEPT ![Id(c)] = @ + nodes[c]]
          /\ persisted' = index'
          /\ sync' = [sync EXCEPT ![c] = "return"]
          /\ UNCHANGED <<faults, call>>
       \/ /\ RaiseToCaller(c)
          /\ \/ UNCHANGED index
             \/ index' = [index EXCEPT ![Id(c)] = @ + nodes[c]]
          /\ UNCHANGED persisted
    /\ UNCHANGED <<mode, pool, schemaFields, merge, del, bulk, writer, usedIds, callId, callFile, returned, chunks, pipeVars,
                   bgVars>>

\* return self._save_docs(documents)
BatchReturn(c) ==
    /\ get_ingestion_component(mode) = "BatchIngestComponent"
    /\ sync[c] = "return"
    /\ call' = [call EXCEPT ![c] = "returned"]
    /\ returned' = [returned EXCEPT ![c] =
            ParsedDocuments(callFile[c], callId[c], chunks[c])]
    /\ sync' = [sync EXCEPT ![c] = "done"]
    /\ UNCHANGED <<mode, pool, schemaFields, merge, del, bulk, writer, faults, usedIds, callId, callFile, chunks, nodes,
                   indexVars, indexLock, pipeVars, bgVars>>

\* --------------------------------------- PipelineIngestComponent.ingest

ProcessDocs(c) == [cmd |-> "process", c |-> c, n |-> 0]
ProcessNodes(c, n) == [cmd |-> "process", c |-> c, n |-> n]
Flush == [cmd |-> "flush", c |-> 0, n |-> 0]
Quit == [cmd |-> "quit", c |-> 0, n |-> 0]

\* PipelineIngestComponent.ingest is entered.
PipelineIngestCall(c, f) ==
    /\ get_ingestion_component(mode) = "PipelineIngestComponent"
    /\ pool.life = "live"
    /\ call[c] = "none"
    /\ \A b \in Calls : b < c => call[b] # "none"
    /\ call' = [call EXCEPT ![c] = "started"]
    /\ callFile' = [callFile EXCEPT ![c] = f]
    /\ sync' = [sync EXCEPT ![c] = "parse"]
    /\ UNCHANGED <<mode, pool, schemaFields, merge, del, bulk, writer, faults, usedIds, callId, returned, chunks, nodes,
                   indexVars, indexLock, pipeVars, bgVars>>

\* documents = IngestionHelper.transform_file_into_documents(...)
PipelineParse(c) ==
    /\ get_ingestion_component(mode) = "PipelineIngestComponent"
    /\ ParseInCaller(c, "put_process")
    /\ UNCHANGED <<mode, pool, schemaFields, merge, del, bulk, writer, callFile, returned, nodes, indexVars, indexLock,
                   pipeVars, bgVars>>

\* self.doc_q.put(("process", file_name, documents)): blocks while doc_q is full
PipelinePutProcess(c) ==
    /\ sync[c] = "put_process"
    /\ Len(docQ) < DocQCapacity
    /\ docQ' = Append(docQ, ProcessDocs(c))
    /\ docUnfinished' = docUnfinished + 1
    /\ sync' = [sync EXCEPT ![c] = "flush_doc"]
    /\ UNCHANGED <<mode, pool, schemaFields, merge, del, bulk, writer, faults, callVars, chunks, nodes, indexVars, indexLock,
                   dispItem, sem, jobs, nodeQ, nodeUnfinished, fileStack,
                   nodeStack, docStack, bgVars>>

\* _flush: self.doc_q.put(("flush", None, None))
FlushPutDocQ(c) ==
    /\ sync[c] = "flush_doc"
    /\ Len(docQ) < DocQCapacity
    /\ docQ' = Append(docQ, Flush)
    /\ docUnfinished' = docUnfinished + 1
    /\ sync' = [sync EXCEPT ![c] = "join_doc"]
    /\ UNCHANGED <<mode, pool, schemaFields, merge, del, bulk, writer, faults, callVars, chunks, nodes, indexVars, indexLock,
                   dispItem, sem, jobs, nodeQ, nodeUnfinished, fileStack,
                   nodeStack, docStack, bgVars>>

\* _flush: self.doc_q.join() returns once doc_q has no unfinished task
FlushJoinDocQ(c) ==
    /\ sync[c] = "join_doc"
    /\ docUnfinished = 0
    /\ sync' = [sync EXCEPT ![c] = "flush_node"]
    /\ UNCHANGED <<mode, pool, schemaFields, merge, del, bulk, writer, faults, callVars, chunks, nodes, indexVars, indexLock,
                   pipeVars, bgVars>>

\* _flush: self.node_q.put(("flush", None, None, None))
FlushPutNodeQ(c) ==
    /\ sync[c] = "flush_node"
    /\ Len(nodeQ) < NodeQCapacity
    /\ nodeQ' = Append(nodeQ, Flush)
    /\ nodeUnfinished' = nodeUnfinished + 1
    /\ sync' = [sync EXCEPT ![c] = "join_node"]
    /\ UNCHANGED <<mode, pool, schemaFields, merge, del, bulk, writer, faults, callVars, chunks, nodes, indexVars, indexLock,
                   docQ, docUnfinished, dispItem, sem, jobs, fileStack,
                   nodeStack, docStack, bgVars>>

\* Mutant: _flush does not wait for node_q.
FlushJoinNodeQNoWait(c) ==
    /\ sync[c] = "join_node"
    /\ sync' = [sync EXCEPT ![c] = "return"]
    /\ UNCHANGED <<mode, pool, schemaFields, merge, del, bulk, writer, faults, callVars, chunks, nodes, indexVars,
                   indexLock, pipeVars, bgVars>>

\* _flush: self.node_q.join() returns once node_q has no unfinished task
FlushJoinNodeQ(c) ==
    /\ sync[c] = "join_node"
    /\ nodeUnfinished = 0
    /\ sync' = [sync EXCEPT ![c] = "return"]
    /\ UNCHANGED <<mode, pool, schemaFields, merge, del, bulk, writer, faults, callVars, chunks, nodes, indexVars, indexLock,
                   pipeVars, bgVars>>

\* Mutant: ingest returns after the put, without _flush.
PipelineMayReturnUnflushed(c) ==
    sync[c] \in {"flush_doc", "join_doc", "flush_node", "join_node", "return"}

\* The statement "return documents" of PipelineIngestComponent.ingest is reached.
PipelineMayReturn(c) == sync[c] = "return"

\* return documents
PipelineReturn(c) ==
    /\ get_ingestion_component(mode) = "PipelineIngestComponent"
    /\ PipelineMayReturn(c)
    /\ call' = [call EXCEPT ![c] = "returned"]
    /\ returned' = [returned EXCEPT ![c] =
            ParsedDocuments(callFile[c], callId[c], chunks[c])]
    /\ sync' = [sync EXCEPT ![c] = "done"]
    /\ UNCHANGED <<mode, pool, schemaFields, merge, del, bulk, writer, faults, usedIds, callId, callFile, chunks, nodes,
                   indexVars, indexLock, pipeVars, bgVars>>

RECURSIVE SumOver(_, _)
\* len(node_stack): the nodes accumulated over the calls in S.
SumOver(stack, S) ==
    IF S = {} THEN 0
    ELSE LET c == CHOOSE x \in S : TRUE IN stack[c] + SumOver(stack, S \ {c})

\* The units of work the pool is running.
InPool == SumOver(jobs, Calls)

\* Mutant: the dispatcher marks every command done, process commands too.
DocToNodeGetMarksAll ==
    /\ dispItem = 0
    /\ docQ # <<>>
    /\ docQ' = Tail(docQ)
    /\ docUnfinished' = docUnfinished - 1
    /\ dispItem' = IF Head(docQ).cmd = "process" THEN Head(docQ).c ELSE dispItem
    /\ UNCHANGED <<mode, pool, schemaFields, merge, del, bulk, writer, faults, callVars, chunks, nodes, indexVars, indexLock,
                   sync, sem, jobs, nodeQ, nodeUnfinished, fileStack, nodeStack, docStack,
                   bgVars>>

\* _doc_to_node: doc_q.get(); a flush command is marked done at once, a process
\* command is kept until a semaphore permit is free.
DocToNodeGet ==
    /\ dispItem = 0
    /\ docQ # <<>>
    /\ docQ' = Tail(docQ)
    /\ IF Head(docQ).cmd = "process"
       THEN /\ dispItem' = Head(docQ).c
            /\ UNCHANGED docUnfinished
       ELSE /\ docUnfinished' = docUnfinished - 1
            /\ UNCHANGED dispItem
    /\ UNCHANGED <<mode, pool, schemaFields, merge, del, bulk, writer, faults, callVars, chunks, nodes, indexVars, indexLock,
                   sync, sem, jobs, nodeQ, nodeUnfinished, fileStack, nodeStack, docStack,
                   bgVars>>

\* Mutant: the unit is handed to the pool without a permit.
DocToNodeDispatchUnbounded ==
    /\ dispItem # 0
    /\ jobs' = [jobs EXCEPT ![dispItem] = @ + 1]
    /\ dispItem' = 0
    /\ UNCHANGED <<mode, pool, schemaFields, merge, del, bulk, writer, faults, callVars, chunks, nodes, indexVars,
                   indexLock, sync, sem, docQ, docUnfinished, nodeQ, nodeUnfinished,
                   fileStack, nodeStack, docStack, bgVars>>

\* _doc_to_node: self.doc_semaphore.acquire(); pool.apply_async(worker, ...)
DocToNodeDispatch ==
    /\ dispItem # 0
    /\ sem > 0
    /\ sem' = sem - 1
    /\ jobs' = [jobs EXCEPT ![dispItem] = @ + 1]
    /\ dispItem' = 0
    /\ UNCHANGED <<mode, pool, schemaFields, merge, del, bulk, writer, faults, callVars, chunks, nodes, indexVars, indexLock,
                   sync, docQ, docUnfinished, nodeQ, nodeUnfinished, fileStack,
                   nodeStack, docStack, bgVars>>

\* Mutant: the permit is released only when the transformations succeeded.
DocToNodeWorkerLeaky(c) ==
    /\ jobs[c] > 0
    /\ \/ /\ Len(nodeQ) < NodeQCapacity
          /\ \E n \in 0..MaxNodes :
                /\ (chunks[c] = 0) = (n = 0)
                /\ nodeQ' = Append(nodeQ, ProcessNodes(c, n))
          /\ nodeUnfinished' = nodeUnfinished + 1
          /\ sem' = sem + 1
          /\ UNCHANGED faults
       \/ /\ Raise
          /\ UNCHANGED <<nodeQ, nodeUnfinished, sem>>
    /\ docUnfinished' = docUnfinished - 1
    /\ jobs' = [jobs EXCEPT ![c] = @ - 1]
    /\ UNCHANGED <<mode, pool, schemaFields, merge, del, bulk, writer, callVars, chunks, nodes, indexVars, indexLock, sync,
                   docQ, dispItem, fileStack, nodeStack, docStack, bgVars>>

\* Mutant: the worker never gives its permit back.
DocToNodeWorkerKeepsPermit(c) ==
    /\ jobs[c] > 0
    /\ \/ /\ Len(nodeQ) < NodeQCapacity
          /\ \E n \in 0..MaxNodes :
                /\ (chunks[c] = 0) = (n = 0)
                /\ nodeQ' = Append(nodeQ, ProcessNodes(c, n))
          /\ nodeUnfinished' = nodeUnfinished + 1
          /\ UNCHANGED faults
       \/ /\ Raise
          /\ UNCHANGED <<nodeQ, nodeUnfinished>>
    /\ docUnfinished' = docUnfinished - 1
    /\ jobs' = [jobs EXCEPT ![c] = @ - 1]
    /\ UNCHANGED <<mode, pool, schemaFields, merge, del, bulk, writer, callVars, chunks, nodes, indexVars, indexLock, sync,
                   docQ, dispItem, sem, fileStack, nodeStack, docStack, bgVars>>

\* _doc_to_node_worker: run_transformations, node_q.put (blocks while node_q is
\* full), and in the finally clause the permit is released and the doc_q item
\* marked done; an exception of the transformations skips the put.
DocToNodeWorker(c) ==
    /\ jobs[c] > 0
    /\ \/ /\ Len(nodeQ) < NodeQCapacity
          /\ \E n \in 0..MaxNodes :
                /\ (chunks[c] = 0) = (n = 0)
                /\ nodeQ' = Append(nodeQ, ProcessNodes(c, n))
          /\ nodeUnfinished' = nodeUnfinished + 1
          /\ UNCHANGED faults
       \/ /\ Raise
          /\ UNCHANGED <<nodeQ, nodeUnfinished>>
    /\ sem' = sem + 1
    /\ docUnfinished' = docUnfinished - 1
    /\ jobs' = [jobs EXCEPT ![c] = @ - 1]
    /\ UNCHANGED <<mode, pool, schemaFields, merge, del, bulk, writer, callVars, chunks, nodes, indexVars, indexLock, sync,
                   docQ, dispItem, fileStack, nodeStack, docStack, bgVars>>

\* The index after insert_nodes(nodes) of the accumulated nodes.
Inserted(stack) ==
    [i \in Ids |-> index[i] + SumOver(stack, {c \in Calls : callId[c] = i})]

\* PipelineIngestComponent._save_docs: insert_nodes, set_document_hash,
\* _save_index; an exception is logged, not raised.  The finally clause, which
\* clears the three stacks, is part of _write_nodes' step below.
SaveDocs(stack) ==
    \/ /\ index' = Inserted(stack)
       /\ persisted' = index'
       /\ UNCHANGED faults
    \/ /\ Raise
       /\ \/ UNCHANGED index
          \/ index' = Inserted(stack)
       /\ UNCHANGED persisted

\* Mutant: the threshold is passed only by more than NODE_FLUSH_COUNT nodes.
ReachedFlushCountStrict(stack) == SumOver(stack, Calls) > NODE_FLUSH_COUNT

\* if len(node_stack) >= self.NODE_FLUSH_COUNT
ReachedFlushCount(stack) == SumOver(stack, Calls) >= NODE_FLUSH_COUNT

\* Mutant: the stacks are cleared only when the save succeeded.
ClearedStackOnSuccess(stack) ==
    IF faults' # faults THEN stack ELSE [c \in Calls |-> 0]

\* node_stack after _save_docs: its finally clause clears the stacks whether
\* the save raised or not.
ClearedStack(stack) == [c \in Calls |-> 0]

\* Mutant: an exception of the save ends the writer's loop.
KeepsRunningUnlessFault(cmd) == cmd # "quit" /\ faults' = faults

\* The loop of _write_nodes is left only by the break of a quit command.
KeepsRunning(cmd) == cmd # "quit"

\* len(documents) of a process command: the chunks of its file, none for a
\* file without content.
DocsOf(h) == Min(h.n, MaxChunks)

\* _write_nodes: one iteration of the loop: node_q.get(), the command is
\* handled, node_q.task_done().  flush and quit save what is accumulated if
\* file_stack is not empty, quit then leaves the loop; process accumulates
\* and saves once len(node_stack) >= NODE_FLUSH_COUNT.  _save_docs clears the
\* three stacks in its finally clause.
WriteNodes ==
    /\ writer.running
    /\ nodeQ # <<>>
    /\ nodeQ' = Tail(nodeQ)
    /\ nodeUnfinished' = nodeUnfinished - 1
    /\ LET h == Head(nodeQ)
           files == IF h.cmd = "process" THEN fileStack \cup {h.c} ELSE fileStack
           stack == IF h.cmd = "process"
                    THEN [nodeStack EXCEPT ![h.c] = @ + h.n] ELSE nodeStack
           docs == IF h.cmd = "process"
                   THEN [docStack EXCEPT ![h.c] = @ + DocsOf(h)] ELSE docStack
           save == IF h.cmd = "process"
                   THEN ReachedFlushCount(stack)
                   ELSE fileStack # {}
       IN /\ IF save
             THEN /\ SaveDocs(stack)
                  /\ fileStack' = {}
                  /\ nodeStack' = ClearedStack(stack)
                  /\ docStack' = ClearedStack(docs)
             ELSE /\ fileStack' = files
                  /\ nodeStack' = stack
                  /\ docStack' = docs
                  /\ UNCHANGED <<faults, indexVars>>
          /\ writer' =
                [running |-> KeepsRunning(h.cmd),
                 handled |-> writer.handled + 1,
                 flushes |-> writer.flushes + (IF save THEN 1 ELSE 0),
                 reported |-> writer.reported +
                              (IF save /\ faults' # faults THEN 1 ELSE 0),
                 taken |-> IF h.cmd = "process"
                           THEN [writer.taken EXCEPT ![h.c] = @ + h.n]
                           ELSE writer.taken,
                 passed |-> IF save
                            THEN [c \in Calls |-> writer.passed[c] + stack[c]]
                            ELSE writer.passed]
    /\ UNCHANGED <<mode, pool, schemaFields, merge, del, bulk, callVars, chunks, nodes, indexLock, sync, docQ,
                   docUnfinished, dispItem, sem, jobs, bgVars>>

\* ------------------------------------------------------------ bulk_ingest

\* The strategies whose bulk_ingest runs in the caller's thread; the parallel
\* strategy's bulk_ingest calls ingest for every file.
BulkModes == {"simple", "batch", "pipeline"}

\* Lengths of the lists of files given to bulk_ingest.
BulkSizes == {1, 2, MaxBulkFiles}

\* bulk_ingest(files) is entered with a list of n files; the documents of the
\* call are filed in the index under one id.
BulkIngestCall(c, f, n) ==
    /\ mode \in BulkModes
    /\ pool.life = "live"
    /\ call[c] = "none"
    /\ Ids \ usedIds # {}
    /\ call' = [call EXCEPT ![c] = "started"]
    /\ callFile' = [callFile EXCEPT ![c] = f]
    /\ usedIds' = usedIds \cup {Uuid4}
    /\ callId' = [callId EXCEPT ![c] = Uuid4]
    /\ chunks' = [chunks EXCEPT ![c] = 0]
    /\ bulk' = [bulk EXCEPT ![c] = [files |-> n, done |-> 0, unparsed |-> 0]]
    /\ sync' = [sync EXCEPT ![c] = "bulk_parse"]
    /\ UNCHANGED <<mode, pool, schemaFields, merge, del, writer, faults, returned, nodes, indexVars,
                   indexLock, pipeVars, bgVars>>

\* The next file of the list is taken and parsed; its documents are added to
\* the documents of the call.
BulkParsed(c, next) ==
    /\ \E n \in 1..MaxChunks : chunks' = [chunks EXCEPT ![c] = @ + n]
    /\ bulk' = [bulk EXCEPT ![c].done = @ + 1]
    /\ sync' = [sync EXCEPT ![c] = next]
    /\ UNCHANGED <<faults, call>>

\* SimpleIngestComponent.bulk_ingest has no handler around
\* transform_file_into_documents: the exception leaves bulk_ingest.
BulkParseFault(c) == RaiseToCaller(c)

\* SimpleIngestComponent.bulk_ingest, loop body: transform_file_into_documents
\* for the next file, then _save_docs(documents).
SimpleBulkParse(c) ==
    /\ mode = "simple"
    /\ sync[c] = "bulk_parse"
    /\ bulk[c].done < bulk[c].files
    /\ \/ BulkParsed(c, "transform")
       \/ /\ BulkParseFault(c)
          /\ bulk' = [bulk EXCEPT ![c].done = @ + 1, ![c].unparsed = @ + 1]
          /\ UNCHANGED chunks
    /\ UNCHANGED <<mode, pool, schemaFields, merge, del, writer, usedIds, callId, callFile, returned, nodes,
                   indexVars, indexLock, pipeVars, bgVars>>

\* SimpleIngestComponent.bulk_ingest: saved_documents.extend(...) after
\* _save_docs returned; the loop goes on, or "return saved_documents".
SimpleBulkExtend(c) ==
    /\ mode = "simple"
    /\ sync[c] = "return"
    /\ IF bulk[c].done < bulk[c].files
       THEN /\ sync' = [sync EXCEPT ![c] = "bulk_parse"]
            /\ UNCHANGED <<call, returned>>
       ELSE /\ sync' = [sync EXCEPT ![c] = "done"]
            /\ call' = [call EXCEPT ![c] = "returned"]
            /\ returned' = [returned EXCEPT ![c] =
                    ParsedDocuments(callFile[c], callId[c], chunks[c])]
    /\ UNCHANGED <<mode, pool, schemaFields, merge, del, bulk, writer, faults, usedIds, callId, callFile, chunks,
                   nodes, indexVars, indexLock, pipeVars, bgVars>>

\* BatchIngestComponent.bulk_ingest: starmap(transform_file_into_documents,
\* files) returns the documents of all files, or raises the exception of the
\* file that failed; _save_docs(documents) follows.
BatchBulkParse(c) ==
    /\ mode = "batch"
    /\ sync[c] = "bulk_parse"
    /\ \/ /\ \E n \in bulk[c].files..(bulk[c].files * MaxChunks) :
                chunks' = [chunks EXCEPT ![c] = n]
          /\ bulk' = [bulk EXCEPT ![c].done = bulk[c].files]
          /\ sync' = [sync EXCEPT ![c] = "transform"]
          /\ UNCHANGED <<faults, call>>
       \/ /\ RaiseToCaller(c)
          /\ bulk' = [bulk EXCEPT ![c].done = bulk[c].files, ![c].unparsed = 1]
          /\ UNCHANGED chunks
    /\ UNCHANGED <<mode, pool, schemaFields, merge, del, writer, usedIds, callId, callFile, returned, nodes,
                   indexVars, indexLock, pipeVars, bgVars>>

\* Where PipelineIngestComponent.bulk_ingest goes on after a file: the next
\* file, or self._flush() after the last one.
BulkAfter(c, done) == IF done = bulk[c].files THEN "flush_doc" ELSE "bulk_parse"

\* PipelineIngestComponent.bulk_ingest, loop body: the file is parsed; an
\* exception is logged ("Skipping ...") and the loop goes on.
PipelineBulkParse(c) ==
    /\ mode = "pipeline"
    /\ sync[c] = "bulk_parse"
    /\ bulk[c].done < bulk[c].files
    /\ \/ BulkParsed(c, "bulk_put")
       \/ /\ Raise
          /\ bulk' = [bulk EXCEPT ![c].done = @ + 1, ![c].unparsed = @ + 1]
          /\ sync' = [sync EXCEPT ![c] = BulkAfter(c, bulk[c].done + 1)]
          /\ UNCHANGED <<chunks, call>>
    /\ UNCHANGED <<mode, pool, schemaFields, merge, del, writer, usedIds, callId, callFile, returned, nodes,
                   indexVars, indexLock, pipeVars, bgVars>>

\* Mutant: the put does not wait for room in doc_q.
PipelineBulkPutNoBlock(c) ==
    /\ sync[c] = "bulk_put"
    /\ docQ' = Append(docQ, ProcessDocs(c))
    /\ docUnfinished' = docUnfinished + 1
    /\ sync' = [sync EXCEPT ![c] = BulkAfter(c, bulk[c].done)]
    /\ UNCHANGED <<mode, pool, schemaFields, merge, del, bulk, writer, faults, callVars, chunks, nodes, indexVars,
                   indexLock, dispItem, sem, jobs, nodeQ, nodeUnfinished,
                   fileStack, nodeStack, docStack, bgVars>>

\* PipelineIngestComponent.bulk_ingest: self.doc_q.put(("process", ...)),
\* which blocks while doc_q is full; docs.extend(documents).
PipelineBulkPut(c) ==
    /\ sync[c] = "bulk_put"
    /\ Len(docQ) < DocQCapacity
    /\ docQ' = Append(docQ, ProcessDocs(c))
    /\ docUnfinished' = docUnfinished + 1
    /\ sync' = [sync EXCEPT ![c] = BulkAfter(c, bulk[c].done)]
    /\ UNCHANGED <<mode, pool, schemaFields, merge, del, bulk, writer, faults, callVars, chunks, nodes, indexVars,
                   indexLock, dispItem, sem, jobs, nodeQ, nodeUnfinished,
                   fileStack, nodeStack, docStack, bgVars>>

\* Node counts of the process commands put on node_q in the writer's
\* specification: they reach NODE_FLUSH_COUNT exactly, or stay one below it.
FeedSizes == {1, NODE_FLUSH_COUNT - 1, NODE_FLUSH_COUNT}

\* The commands node_q.put receives: ("process", file_name, documents, nodes)
\* for a parsed file, ("flush", ...) and ("quit", ...).
FeedCommands ==
    {ProcessNodes(c, n) : c \in {b \in Calls : callId[b] # 0}, n \in FeedSizes}
        \cup {Flush, Quit}

\* node_q.put(cmd) by a producer of the writer (a pool worker, _flush, or the
\* sender of quit): any command, in any order, up to MaxCommands of them.
WriterFeed(cmd) ==
    /\ writer.handled + Len(nodeQ) < MaxCommands
    /\ Len(nodeQ) < NodeQCapacity
    /\ nodeQ' = Append(nodeQ, cmd)
    /\ nodeUnfinished' = nodeUnfinished + 1
    /\ UNCHANGED <<mode, pool, schemaFields, merge, del, bulk, writer, faults, callVars, chunks, nodes, indexVars,
                   indexLock, sync, docQ, docUnfinished, dispItem, sem, jobs,
                   fileStack, nodeStack, docStack, bgVars>>

Next ==
    \/ \E c \in Calls, f \in FileNames : IngestCall(c, f)
    \/ \E c \in Calls : IngestReturn(c)
    \/ \E c \in Calls : RegisterEntry(c)
    \/ \E c \in Calls : TaskPoll(c)
    \/ \E c \in Calls : TaskPhaseParsing(c)
    \/ \E c \in Calls : TaskParseLock(c)
    \/ \E c \in Calls : TaskParse(c)
    \/ \E c \in Calls : TaskFork(c)
    \/ \E c \in Calls : TaskJoin(c)
    \/ \E c \in Calls : TaskPhaseRag(c)
    \/ \E c \in Calls : TaskRagLock(c)
    \/ \E c \in Calls : TaskReconCheck(c)
    \/ \E c \in Calls : TaskReconQuery(c)
    \/ \E c \in Calls : TaskReconWrite(c)
    \/ \E c \in Calls : TaskReconCompleted(c)
    \/ \E c \in Calls : TaskReconExcept(c)
    \/ \E c \in Calls : TaskOuterExcept(c)
    \/ \E c \in Calls : TaskFinally(c)
    \/ \E c \in Calls : ExtPhase(c)
    \/ \E c \in Calls : ExtExtract(c)
    \/ \E c \in Calls : ExtPhaseEmb(c)
    \/ \E c \in Calls : ExtMeta(c)
    \/ \E c \in Calls : EmbPhase(c)
    \/ \E c \in Calls : EmbTransform(c)
    \/ \E c \in Calls : EmbInsert(c)
    \/ \E c \in Calls : EmbSave(c)

Spec == Init /\ [][Next]_vars

SyncNext ==
    \/ \E c \in Calls, f \in FileNames : BatchIngestCall(c, f)
    \/ \E c \in Calls : BatchParse(c)
    \/ \E c \in Calls : BatchTransform(c)
    \/ \E c \in Calls : BatchLock(c)
    \/ \E c \in Calls : BatchInsert(c)
    \/ \E c \in Calls : BatchReturn(c)
    \/ \E c \in Calls, f \in FileNames : PipelineIngestCall(c, f)
    \/ \E c \in Calls : PipelineParse(c)
    \/ \E c \in Calls : PipelinePutProcess(c)
    \/ \E c \in Calls : FlushPutDocQ(c)
    \/ \E c \in Calls : FlushJoinDocQ(c)
    \/ \E c \in Calls : FlushPutNodeQ(c)
    \/ \E c \in Calls : FlushJoinNodeQ(c)
    \/ \E c \in Calls : PipelineReturn(c)
    \/ DocToNodeGet
    \/ DocToNodeDispatch
    \/ \E c \in Calls : DocToNodeWorker(c)
    \/ WriteNodes

\* The batch and pipeline strategies.
SyncSpec == SyncInit /\ [][SyncNext]_vars

\* One step of the background thread of call c, or of one of its branches.
\* A component of a background strategy whose index was loaded with every
\* document but one already in it: one more file can be ingested while
\* delete is called for the documents.
DeleteInit ==
    mode \in BgModes /\ Loaded(Ids \ {1}) /\ schemaFields = MaxMissing /\ merge = NoMerge

DeleteNext ==
    \/ Next
    \/ \E i \in Ids : DeleteLock(i)
    \/ DeleteRefDoc
    \/ DeleteSaveIndex

DeleteSpec == DeleteInit /\ [][DeleteNext]_vars

\* The writer thread of the pipeline under every sequence of commands: files
\* are parsed by ingest, node_q is fed with any commands about them.
WriterNext ==
    \/ \E c \in Calls, f \in FileNames : PipelineIngestCall(c, f)
    \/ \E c \in Calls : PipelineParse(c)
    \/ \E cmd \in FeedCommands : WriterFeed(cmd)
    \/ WriteNodes

WriterInit == mode = "pipeline" /\ Constructed

WriterSpec == WriterInit /\ [][WriterNext]_vars

\* One caller at a time: bulk_ingest in the strategies whose bulk_ingest runs
\* in the caller's thread, or ingest of the pipeline.
BulkNext ==
    \/ \E f \in FileNames, n \in BulkSizes : BulkIngestCall(1, f, n)
    \/ \E f \in FileNames : PipelineIngestCall(1, f)
    \/ \E c \in Calls : PipelineParse(c)
    \/ \E c \in Calls : PipelinePutProcess(c)
    \/ \E c \in Calls : SimpleBulkParse(c)
    \/ \E c \in Calls : SimpleBulkExtend(c)
    \/ \E c \in Calls : BatchBulkParse(c)
    \/ \E c \in Calls : BatchTransform(c)
    \/ \E c \in Calls : BatchLock(c)
    \/ \E c \in Calls : BatchInsert(c)
    \/ \E c \in Calls : BatchReturn(c)
    \/ \E c \in Calls : PipelineBulkParse(c)
    \/ \E c \in Calls : PipelineBulkPut(c)
    \/ \E c \in Calls : FlushPutDocQ(c)
    \/ \E c \in Calls : FlushJoinDocQ(c)
    \/ \E c \in Calls : FlushPutNodeQ(c)
    \/ \E c \in Calls : FlushJoinNodeQ(c)
    \/ \E c \in Calls : PipelineReturn(c)
    \/ DocToNodeGet
    \/ DocToNodeDispatch
    \/ \E c \in Calls : DocToNodeWorker(c)
    \/ WriteNodes

BulkInit == mode \in BulkModes /\ Constructed

BulkSpec == BulkInit /\ [][BulkNext]_vars

\* ------------------------------------------- the pipeline, fairly scheduled

\* The lists given to bulk_ingest: MaxFairFiles files are enough to have
\* doc_q, the pool and node_q full at once with the caller waiting.
FairSizes == {1, 2, MaxFairFiles}

\* A step of one of the pipeline's threads: the caller inside ingest or
\* bulk_ingest, the dispatcher, a worker of the pool, the writer.
PipeStep ==
    \/ \E c \in Calls : PipelineParse(c)
    \/ \E c \in Calls : PipelinePutProcess(c)
    \/ \E c \in Calls : PipelineBulkParse(c)
    \/ \E c \in Calls : PipelineBulkPut(c)
    \/ \E c \in Calls : FlushPutDocQ(c)
    \/ \E c \in Calls : FlushJoinDocQ(c)
    \/ \E c \in Calls : FlushPutNodeQ(c)
    \/ \E c \in Calls : FlushJoinNodeQ(c)
    \/ \E c \in Calls : PipelineReturn(c)
    \/ DocToNodeGet
    \/ DocToNodeDispatch
    \/ \E c \in Calls : DocToNodeWorker(c)
    \/ WriteNodes

\* A pipeline component whose collaborators may fail once, or never fail.
PipeFairInit ==
    /\ mode = "pipeline"
    /\ schemaFields = MaxMissing
    /\ merge = NoMerge
    /\ \/ Loaded({})
       \/ LoadedAfter({}, MaxFaults)

\* One call of bulk_ingest or of ingest; the longest list is given to a
\* component whose collaborators all return.
PipeFairNext ==
    \/ \E f \in FileNames, n \in FairSizes :
          /\ n = MaxFairFiles => faults = MaxFaults
          /\ BulkIngestCall(1, f, n)
    \/ \E f \in FileNames : PipelineIngestCall(1, f)
    \/ PipeStep

\* The threads are scheduled: a thread that can take a step is not left
\* waiting for ever while every other thread waits too.
PipeFairness == WF_vars(PipeStep)

PipeFairSpec == PipeFairInit /\ [][PipeFairNext]_vars /\ PipeFairness

\* Reconciliation for a document type with a large schema: one file is
\* ingested by a background strategy, and the extraction can miss up to
\* MaxFields fields.
ReconInit ==
    mode \in BgModes /\ Loaded(Ids \ {1}) /\ schemaFields = MaxFields /\ merge = NoMerge

ReconSpec == ReconInit /\ [][Next]_vars

\* deep_update over every dict d and every JSON value u nested at most
\* MaxDepth deep.
MergeInit ==
    /\ mode \in BgModes /\ Loaded({}) /\ schemaFields = MaxMissing
    /\ merge \in {[pc |-> "args", d |-> b, u |-> o, once |-> None, twice |-> None] :
                    b \in JsonDicts(MaxDepth), o \in JsonValues(MaxDepth)}

MergeNext == DeepUpdateCall \/ DeepUpdateAgain

MergeSpec == MergeInit /\ [][MergeNext]_vars

\* ------------------------------------------------------------- shutdown

\* No call of the component is running and no background thread of it is left:
\* nothing but the application's own reference keeps the component.
Quiescent ==
    \A c \in Calls : call[c] # "started" /\ task[c] \in {"idle", "done"}

\* The classes that define __del__.
HasDel(m) == m = "parallel"

\* ParallelizedIngestComponent.__del__: its statements in order.
DelProgram ==
    << <<"ingest_work_pool", "close">>, <<"ingest_work_pool", "join">>,
       <<"ingest_work_pool", "terminate">>,
       <<"file_to_documents_work_pool", "close">>,
       <<"file_to_documents_work_pool", "join">>,
       <<"file_to_documents_work_pool", "terminate">> >>

\* The orchestrator shuts down: the application gives up the component.  A
\* class with __del__ runs it; the others execute no statement of their own.
Release ==
    /\ pool.life = "live"
    /\ Quiescent
    /\ pool' = [pool EXCEPT !.life = IF HasDel(mode) THEN "del" ELSE "gone"]
    /\ UNCHANGED <<componentVars, merge>>

\* One statement of __del__: close(), join() or terminate() of a pool; join
\* returns because a closed pool without outstanding work ends its workers.
Del ==
    /\ pool.life = "del"
    /\ LET st == DelProgram[pool.pc + 1] IN
        pool' = [pool EXCEPT !.ops[st[1]] = Append(@, st[2]),
                             !.pc = @ + 1,
                             !.life = IF pool.pc + 1 = Len(DelProgram) THEN "gone" ELSE @]
    /\ UNCHANGED <<componentVars, merge>>

\* One document submitted to a component of any strategy, which is then
\* shut down.
ShutdownInit ==
    /\ mode \in BgModes \cup SyncModes
    /\ Loaded(Ids \ {1})
    /\ schemaFields = MaxMissing
    /\ merge = NoMerge

ShutdownNext ==
    \/ Next
    \/ SyncNext
    \/ Release
    \/ Del

ShutdownSpec == ShutdownInit /\ [][ShutdownNext]_vars

TaskStep(c) ==
    \/ TaskPoll(c) \/ TaskPhaseParsing(c) \/ TaskParseLock(c) \/ TaskParse(c)
    \/ TaskFork(c) \/ TaskJoin(c) \/ TaskPhaseRag(c) \/ TaskRagLock(c)
    \/ TaskReconCheck(c) \/ TaskReconQuery(c) \/ TaskReconWrite(c)
    \/ TaskReconCompleted(c) \/ TaskReconExcept(c) \/ TaskOuterExcept(c)
    \/ TaskFinally(c)
ExtStep(c) == ExtPhase(c) \/ ExtExtract(c) \/ ExtPhaseEmb(c) \/ ExtMeta(c)
EmbStep(c) == EmbPhase(c) \/ EmbTransform(c) \/ EmbInsert(c) \/ EmbSave(c)

\* While some thread can take a step, some thread eventually takes one: the
\* threads are scheduled, and every external call returns or raises.
Fairness ==
    WF_vars(\E c \in Calls : TaskStep(c) \/ ExtStep(c) \/ EmbStep(c))

\* The submissions checked under the fair scheduler: one submission whose
\* collaborators may fail, or two concurrent submissions whose collaborators
\* all return.
FairInit ==
    /\ mode \in BgModes
    /\ schemaFields = MaxMissing
    /\ merge = NoMerge
    /\ \/ Loaded(Ids \ {1})
       \/ LoadedAfter({}, MaxFaults)

FairSpec == FairInit /\ [][Next]_vars /\ Fairness

\* ------------------------------------------------------------ properties

Last(q) == q[Len(q)]
Written(i) == {phaseLog[i][k] : k \in 1..Len(phaseLog[i])}
Started(c) == call[c] # "none"
IntermediatePhases == {"parsing", "extraction", "embedding", "rag"}
TerminalPhases == {"completed", "error"}
ReconWork == {"recon_check", "recon_query", "recon_write"}
AfterJoin == {"phase_rag", "rag_lock", "recon_check", "recon_query", "recon_write",
              "recon_completed", "recon_except"}

\* C1: ingest of the simple and parallel strategies returns exactly one stub
\* Document (empty text; doc_id and metadata carry the id allocated for this
\* call, which no other call received, and the file name), and the return is
\* possible in every state of the background task: it never waits for it.
C1_StubReturnedWithoutWaiting ==
    \A c \in Calls :
        /\ call[c] = "started" => ENABLED IngestReturn(c)
        /\ call[c] = "returned" =>
              /\ Len(returned[c]) = 1
              /\ returned[c][1].text = ""
              /\ returned[c][1].doc_id = callId[c]
              /\ returned[c][1].metadata = [file_name |-> callFile[c], doc_id |-> callId[c]]
              /\ callId[c] \in Ids
              /\ \A b \in Calls \ {c} : callId[b] # callId[c]

\* C1 witness: a handle was returned before its file was parsed.
C1_Witness ==
    \E c \in Calls : call[c] = "returned" /\ chunks[c] = -1 /\ task[c] = "poll"

\* C2 as stated: in every variant, here batch and pipeline, a started ingest
\* call can return at once, whatever remains to be parsed or embedded, and a
\* returned handle has a background task driving its phase.
C2_AllVariantsReturnAtOnce ==
    \A c \in Calls :
        /\ call[c] = "started" => ENABLED (BatchReturn(c) \/ PipelineReturn(c))
        /\ call[c] = "returned" => task[c] # "idle"

\* C2 amended: the batch and pipeline variants are synchronous.  When ingest
\* has returned, the file has been parsed and the parsed chunks, not a stub,
\* are what was returned; no work of the call is outstanding in a queue, in
\* the pool or in the writer's stacks; unless a collaborator failed, its nodes
\* are in the index and persisted; no background task was started for it and
\* no phase was written.
C2_BatchAndPipelineSynchronous ==
    \A c \in Calls : (call[c] = "returned" /\ mode \in SyncModes) =>
        /\ chunks[c] >= 0
        /\ Len(returned[c]) = chunks[c]
        /\ \A k \in 1..Len(returned[c]) : returned[c][k].text # ""
        /\ jobs[c] = 0 /\ c \notin fileStack /\ dispItem # c
        /\ \A k \in 1..Len(docQ) : docQ[k].c # c
        /\ \A k \in 1..Len(nodeQ) : nodeQ[k].c # c
        /\ faults = 0 =>
              /\ index[Id(c)] >= 1
              /\ persisted[Id(c)] = index[Id(c)]
        /\ task[c] = "idle" /\ ext[c] = "idle" /\ emb[c] = "idle"
        /\ \A i \in Ids : phaseLog[i] = <<>>

\* C2 witness: a pipeline ingest returned the parsed chunks of a file whose
\* nodes the writer thread has inserted and persisted.
C2_Witness ==
    \E c \in Calls :
        /\ mode = "pipeline"
        /\ call[c] = "returned"
        /\ Len(returned[c]) >= 1
        /\ persisted[Id(c)] >= 1

C4_ErrorThenCompleted ==
    \A c \in Calls : task[c] = "done" =>
        LET log == phaseLog[Id(c)] IN
        /\ Len(log) > 0
        /\ Last(log) = "completed"
        /\ \A k \in 1..Len(log) : log[k] = "error" =>
              \E j \in (k + 1)..Len(log) : log[j] = "completed"

\* C4 witness: a finished task that wrote phase error.
C4_Witness ==
    \E c \in Calls : task[c] = "done" /\ "error" \in Written(Id(c))

\* C5: within one task the parsing phase write and the parse precede the start
\* of both branches, both branches precede the rag phase write and the
\* reconciliation block, and the block precedes the terminal phase write.
C5_StepsOrdered ==
    \A c \in Calls : Started(c) =>
        LET log == phaseLog[Id(c)] IN
        /\ (chunks[c] >= 0 \/ task[c] \in {"parse_lock", "parse"}) =>
              Len(log) > 0 /\ log[1] = "parsing"
        /\ (ext[c] # "idle" \/ emb[c] # "idle") =>
              /\ chunks[c] >= 0
              /\ log[1] = "parsing"
        /\ "rag" \in Written(Id(c)) =>
              /\ Terminated(ext[c]) /\ Terminated(emb[c])
              /\ \A k \in 1..Len(log) :
                    log[k] \in {"extraction", "embedding"} =>
                        \E j \in (k + 1)..Len(log) : log[j] = "rag"
        /\ task[c] \in ReconWork =>
              /\ "rag" \in Written(Id(c))
              /\ Written(Id(c)) \cap TerminalPhases = {}
        /\ Written(Id(c)) \cap TerminalPhases # {} => task[c] \notin ReconWork

\* C5 witness: the second document finished, reconciliation included, while
\* the first document, submitted earlier, has not been parsed.
C5_Witness ==
    \E b, c \in Calls :
        /\ b < c
        /\ task[c] = "done" /\ reconWrites[Id(c)] = 1
        /\ task[b] = "poll" /\ chunks[b] = -1

\* C6: the rag phase write and the reconciliation block start only after both
\* branches have terminated: reconciliation never runs while a branch of the
\* same document is still running.
C6_JoinBeforeReconciliation ==
    \A c \in Calls :
        task[c] \in AfterJoin => Terminated(ext[c]) /\ Terminated(emb[c])

\* C6 witness: both branches of one document are running at the same time.
C6_Witness ==
    \E c \in Calls : ext[c] = "extract" /\ emb[c] = "insert" /\ task[c] = "join"

\* C7: a fault in one branch does not stop, cancel or skip the other branch:
\* past the join the extraction branch has run to its end, and the embedding
\* branch has either run to its end (its nodes inserted and persisted) or was
\* ended by a fault of its own, never by the fault of the extraction.
C7_BranchFaultsIsolated ==
    \A c \in Calls :
        (task[c] \in AfterJoin \cup {"finally", "done"} /\ chunks[c] >= 0) =>
            /\ ext[c] = "done"
            /\ emb[c] \in {"done", "failed"}
            /\ extRet[c] \in {"completed", "error"}
            /\ (extRet[c] = "error" /\ emb[c] = "failed") => faults >= 2
            /\ (emb[c] = "failed" /\ faults = 1) =>
                  extRet[c] = "completed" /\ resultFile[Id(c)].present
            /\ emb[c] = "done" =>
                  /\ chunks[c] > 0 => index[Id(c)] >= 1
                  /\ persisted[Id(c)] = index[Id(c)]

\* C7 witness: the extraction failed and the embedding of the same document
\* ran to completion.
C7_Witness ==
    \E c \in Calls :
        /\ task[c] = "phase_rag"
        /\ extRet[c] = "error"
        /\ emb[c] = "done"
        /\ index[Id(c)] >= 1

\* C8: RAG queries and the rewriting of the record happen only for a stored
\* record with status completed and content (the only other record found
\* after them is the one a failed rewrite has cut short); when the result
\* file is absent or its result is empty, a task that reached the block issues
\* no query, writes no record and no error phase, and ends with phase completed.
C8_ReconciliationOnlyWithResult ==
    \A c \in Calls : Started(c) =>
        LET i == Id(c) IN
        /\ (ragCalls[i] # <<>> \/ reconWrites[i] > 0
                \/ task[c] \in {"recon_query", "recon_write"}) =>
              /\ resultFile[i].present
              /\ resultFile[i] # Truncated =>
                    /\ resultFile[i].status = "completed"
                    /\ ~resultFile[i].empty
        /\ resultFile[i] = Truncated =>
              /\ ragCalls[i] # <<>>
              /\ taskFault[c] = "recon"
              /\ task[c] \in {"recon_except", "finally", "done"}
        /\ (task[c] = "done" /\ "rag" \in Written(i) /\ resultFile[i] # Truncated
                /\ (~resultFile[i].present \/ resultFile[i].empty)) =>
              /\ ragCalls[i] = <<>>
              /\ reconWrites[i] = 0
              /\ "error" \notin Written(i)
              /\ Last(phaseLog[i]) = "completed"

\* C8 witness: a finished task found a stored result without content.
C8_Witness ==
    \E c \in Calls :
        /\ task[c] = "done"
        /\ "rag" \in Written(Id(c))
        /\ docType[c] # ""
        /\ resultFile[Id(c)].present /\ resultFile[Id(c)].empty

\* C9 as stated: a fault in parsing and also a fault inside the reconciliation
\* block make the task write phase error.
C9_ErrorOnParseAndReconFault ==
    \A c \in Calls :
        (task[c] = "done" /\ taskFault[c] \in {"parse", "recon"}) =>
            "error" \in Written(Id(c))

\* C9 amended: phase error is written exactly when parsing raised; a fault
\* inside the reconciliation block writes no error phase.
C9_ErrorOnlyOnParseFault ==
    \A c \in Calls :
        task[c] = "done" =>
            ("error" \in Written(Id(c)) <=> taskFault[c] = "parse")

\* C9 witness: a task whose reconciliation block raised has finished.
C9_Witness ==
    \E c \in Calls :
        /\ task[c] = "done"
        /\ taskFault[c] = "recon"
        /\ "error" \notin Written(Id(c))

\* C10: a fault raised in the reconciliation block is caught by the block's
\* own handler, never reaches the outer handler, the lock is released, and
\* the phase advances to completed.
C10_ReconFaultCaught ==
    \A c \in Calls : taskFault[c] = "recon" =>
        /\ task[c] \in {"recon_except", "finally", "done"}
        /\ task[c] = "recon_except" => ragLock = c
        /\ task[c] \in {"finally", "done"} =>
              /\ ragLock # c
              /\ Last(phaseLog[Id(c)]) = "completed"

\* C10 witness: a RAG query raised and the task finished.
C10_Witness ==
    \E c \in Calls :
        /\ taskFault[c] = "recon"
        /\ Len(ragCalls[Id(c)]) = 1
        /\ task[c] = "done"

\* Rank of a phase in the order parsing < {extraction, embedding} < rag <
\* completed; error, reachable from any phase, ranks last.
Rank(p) ==
    CASE p = "parsing" -> 1
      [] p \in {"extraction", "embedding"} -> 2
      [] p = "rag" -> 3
      [] p = "completed" -> 4
      [] p = "error" -> 5

\* C12: the phases written for one document id never go back in the order
\* parsing < {extraction, embedding} < rag < completed: a write ranks at least
\* as high as every earlier write for that id, except a completed write that
\* comes after an error write.
C12_PhaseWritesMonotonic ==
    \A i \in Ids :
        \A j, k \in 1..Len(phaseLog[i]) :
            j < k =>
                \/ Rank(phaseLog[i][k]) >= Rank(phaseLog[i][j])
                \/ phaseLog[i][k] = "completed" /\ phaseLog[i][j] = "error"

\* C12 witness: a finished task of the parallel strategy whose embedding
\* branch wrote its phase before the extraction branch did.
C12_Witness ==
    \E c \in Calls :
        /\ task[c] = "done"
        /\ phaseLog[Id(c)] =
              <<"parsing", "embedding", "extraction", "rag", "completed", "completed">>

EmbMutating(c) == emb[c] = "save"

\* delete is inside the sequence delete_ref_doc, _save_index.
DeleteMutating == del.pc \in {"delete_ref_doc", "save_index"}

\* C11: every mutation of the index and the document store holds the index
\* lock: the embedding branch holds it between its insert and its persist, so
\* no delete runs while an ingestion inserts or persists.
C11_IndexMutationsUnderLock ==
    /\ DeleteMutating => indexLock = Deleter
    /\ \A c \in Calls : EmbMutating(c) => indexLock = c
    /\ \A c \in Calls : ~(EmbMutating(c) /\ DeleteMutating)

\* The nodes in the writer's node_stack.
Accumulated == SumOver(nodeStack, Calls)

\* The step is an iteration of _write_nodes that handled command cmd.
WriterHandles(cmd) ==
    /\ writer'.handled = writer.handled + 1
    /\ Head(nodeQ).cmd = cmd

\* C15: when the nodes accumulated by process commands reach NODE_FLUSH_COUNT
\* exactly, that command causes exactly one flush and the accumulators are
\* empty before the next command is taken; while the sum stays at
\* NODE_FLUSH_COUNT - 1 or below, a process command causes no flush, and the
\* nodes stay accumulated until a flush or quit command is handled.
C15_FlushAtThreshold ==
    /\ [](Accumulated < NODE_FLUSH_COUNT)
    /\ [][WriterHandles("process") =>
            LET sum == Accumulated + Head(nodeQ).n
            IN /\ sum = NODE_FLUSH_COUNT =>
                    /\ writer'.flushes = writer.flushes + 1
                    /\ Accumulated' = 0 /\ fileStack' = {}
               /\ sum < NODE_FLUSH_COUNT =>
                    /\ writer'.flushes = writer.flushes
                    /\ Accumulated' = sum
                    /\ UNCHANGED indexVars]_vars

\* C15 witness: two process commands of NODE_FLUSH_COUNT - 1 nodes and one
\* node were handled, nothing else, and one flush emptied the accumulators.
C15_Witness ==
    /\ writer.handled = 2
    /\ writer.taken[1] = NODE_FLUSH_COUNT - 1
    /\ writer.taken[2] = 1
    /\ writer.flushes = 1
    /\ Accumulated = 0
    /\ index[Id(1)] = NODE_FLUSH_COUNT - 1

\* C16: of the nodes the writer accumulated for a file, each is either still
\* accumulated or was passed to insert_nodes once: the nodes passed to
\* insert_nodes never exceed the nodes accumulated, whatever the commands and
\* whichever flushes failed.
C16_NodeInsertedAtMostOnce ==
    \A c \in Calls :
        /\ writer.passed[c] + nodeStack[c] = writer.taken[c]
        /\ callId[c] # 0 => index[Id(c)] <= writer.passed[c]

\* C16 witness: a flush failed, later commands and a later flush were handled,
\* and the nodes of the failed batch were passed to insert_nodes once.
C16_Witness ==
    /\ writer.reported = 1
    /\ writer.flushes = 2
    /\ \E c \in Calls : /\ writer.passed[c] = 1 /\ writer.taken[c] = 1
                       /\ callId[c] # 0 /\ index[Id(c)] = 0

\* C17: a flush attempt that raises is logged, leaves file_stack, doc_stack
\* and node_stack empty, is not attempted again, and does not end the writer:
\* the loop keeps running unless the command was quit.
C17_FailedFlushDiscarded ==
    /\ [](\A c \in Calls : writer.passed[c] <= writer.taken[c])
    /\ [](writer.reported <= writer.flushes)
    /\ [][(writer'.flushes = writer.flushes + 1 /\ faults' # faults) =>
            /\ writer'.reported = writer.reported + 1
            /\ fileStack' = {}
            /\ Accumulated' = 0
            /\ UNCHANGED persisted
            /\ writer'.running = (Head(nodeQ).cmd # "quit")]_vars

\* C17 witness: after a failed flush the writer is running and has handled a
\* later process command and a later flush, which wrote that batch.
C17_Witness ==
    /\ writer.running
    /\ writer.reported = 1
    /\ writer.flushes = 2
    /\ writer.handled = 4
    /\ \A c \in {1, 2} : callId[c] # 0
    /\ persisted[Id(1)] = 0 /\ writer.passed[1] >= 1
    /\ persisted[Id(2)] >= 1

\* The process commands of bulk call c whose doc_q.put has returned.
Puts(c) ==
    bulk[c].done - bulk[c].unparsed - (IF sync[c] = "bulk_put" THEN 1 ELSE 0)

\* The process commands in doc_q, held by the dispatcher or running in the
\* pool: those no worker has completed.
Undone ==
    Cardinality({k \in 1..Len(docQ) : docQ[k].cmd = "process"})
        + (IF dispItem # 0 THEN 1 ELSE 0) + InPool

\* No worker has completed a unit of bulk call c.
NoWorkerCompleted(c) == mode = "pipeline" /\ bulk[c].files > 0 /\ Undone = Puts(c)

\* C13 as stated: with no worker completed, at most doc_q's capacity of puts
\* have returned, the 21st is blocked.
C13_TwentyFirstPutBlocks ==
    \A c \in Calls : NoWorkerCompleted(c) => Puts(c) <= DocQCapacity

\* C13: with no worker completed the puts return while doc_q has room: the
\* first DocQCapacity always do, and since the dispatcher takes CountWorkers
\* commands into the pool and holds one more while it waits for a permit, up
\* to DocQCapacity + CountWorkers + 1 puts return; the next put is blocked
\* with doc_q full, the dispatcher waiting and no permit free, until a
\* worker releases one.
C13_PutsBlockBeyondDispatcher ==
    \A c \in Calls : NoWorkerCompleted(c) =>
        /\ Puts(c) <= DocQCapacity + CountWorkers + 1
        /\ (sync[c] = "bulk_put" /\ Puts(c) < DocQCapacity) =>
              Len(docQ) < DocQCapacity
        /\ (sync[c] = "bulk_put" /\ Puts(c) = DocQCapacity + CountWorkers + 1) =>
              /\ Len(docQ) = DocQCapacity
              /\ dispItem # 0
              /\ sem = 0
              /\ InPool = CountWorkers

\* C13 witness: DocQCapacity + CountWorkers + 1 puts have returned, no worker
\* has completed, and the caller is blocked in the next put.
C13_Witness ==
    /\ NoWorkerCompleted(1)
    /\ sync[1] = "bulk_put"
    /\ Puts(1) = DocQCapacity + CountWorkers + 1
    /\ Len(docQ) = DocQCapacity

\* Neither queue of the pipeline has outstanding work and the writer's
\* accumulators are empty.
PipelineDrained ==
    /\ docQ = <<>> /\ docUnfinished = 0 /\ dispItem = 0 /\ InPool = 0
    /\ nodeQ = <<>> /\ nodeUnfinished = 0
    /\ fileStack = {} /\ Accumulated = 0

\* A call of the pipeline's ingest or bulk_ingest has returned.
PipelineReturned(c) == mode = "pipeline" /\ call[c] = "returned"

\* C18 as stated: when the call has returned the pipeline is drained and every
\* node produced for the call is in the index and persisted.
C18_ReturnMeansWritten ==
    \A c \in Calls : PipelineReturned(c) =>
        /\ PipelineDrained
        /\ index[Id(c)] = writer.taken[c]
        /\ persisted[Id(c)] = writer.taken[c]

\* C18: when the call has returned the pipeline is drained and every node
\* produced for the call was passed to the index write; the nodes are in the
\* index and persisted unless a flush attempt raised, in which case its batch
\* was discarded and the call returned all the same.
C18_ReturnMeansFlushAttempted ==
    \A c \in Calls : PipelineReturned(c) =>
        /\ PipelineDrained
        /\ writer.passed[c] = writer.taken[c]
        /\ writer.reported = 0 =>
              /\ index[Id(c)] = writer.taken[c]
              /\ persisted[Id(c)] = writer.taken[c]
        /\ persisted[Id(c)] < writer.taken[c] => writer.reported >= 1

\* C18 witness: bulk_ingest of two files has returned and the nodes of both
\* files are persisted.
C18_Witness ==
    /\ PipelineReturned(1)
    /\ bulk[1].files = 2 /\ bulk[1].unparsed = 0
    /\ writer.taken[1] >= 2
    /\ persisted[Id(1)] = writer.taken[1]

\* A file of bulk call c failed to parse.
ParseFailed(c) == bulk[c].files > 0 /\ bulk[c].unparsed > 0

\* C19: in every strategy a file that fails to parse does not abort
\* bulk_ingest: the call raises nothing to its caller, and once it has ended
\* every file of the list was taken up.
C19_BulkContinuesAfterParseFault ==
    \A c \in Calls : ParseFailed(c) =>
        /\ call[c] # "raised"
        /\ sync[c] = "done" =>
              /\ call[c] = "returned"
              /\ bulk[c].done = bulk[c].files

\* ceil(n / RagBatchSize)
CeilBatches(n) == (n + RagBatchSize - 1) \div RagBatchSize

\* The missing fields of call c: those already given to _extract_with_rag and
\* those still pending.
MissingFields(c) ==
    pending[c] + (IF ragCalls[Id(c)] = <<>> THEN 0
                  ELSE ragCalls[Id(c)][Len(ragCalls[Id(c)])].to)

\* C20: in every strategy that reconciles, each _extract_with_rag call is
\* given at most RagBatchSize missing fields, the calls take consecutive
\* slices of the list of missing fields so that no field is asked twice, and
\* once all N missing fields were asked, ceil(N / RagBatchSize) calls were
\* made (3 calls for 25 fields).
C20_RagBatchesOfTen ==
    \A c \in Calls : callId[c] # 0 =>
        LET slices == ragCalls[Id(c)]
        IN /\ \A k \in 1..Len(slices) :
                 /\ slices[k].to - slices[k].from + 1 <= RagBatchSize
                 /\ slices[k].from = (IF k = 1 THEN 1 ELSE slices[k - 1].to + 1)
           /\ (task[c] \in {"recon_write", "recon_completed"} /\ taskFault[c] = "none")
                 => Len(slices) = CeilBatches(MissingFields(c))

RECURSIVE RefMerge(_, _)
\* The merge rule, key by key: a key only the base holds keeps its value; an
\* overlay value that is not a dict overwrites; an overlay dict is merged into
\* a non-empty dict of the base and replaces anything else; an overlay that is
\* not a dict leaves the base as it is.
RefMerge(b, o) ==
    IF ~o.dict THEN b
    ELSE Dict([k \in DOMAIN b.items \cup DOMAIN o.items |->
            IF k \notin DOMAIN o.items THEN b.items[k]
            ELSE IF ~o.items[k].dict THEN o.items[k]
            ELSE IF /\ k \in DOMAIN b.items
                    /\ b.items[k].dict
                    /\ DOMAIN b.items[k].items # {}
                 THEN RefMerge(b.items[k], o.items[k])
                 ELSE o.items[k]])

\* C21: deep_update is idempotent: merging u again into the result of merging
\* u into d gives that result.
C21_DeepUpdateIdempotent ==
    merge.pc = "twice" => merge.twice = merge.once

\* C21 witness: both calls were made on a base and an overlay that hold a
\* non-empty dict under the same key, and the merge changed the base.
C21_Witness ==
    /\ merge.pc = "twice"
    /\ \E k \in Keys :
          /\ ~Replaces(merge.d, k)
          /\ Get(merge.u, k).dict /\ DOMAIN Get(merge.u, k).items # {}
          /\ Get(merge.once, k) # Get(merge.d, k)
          /\ Get(merge.once, k) # Get(merge.u, k)

\* C22: what deep_update returns equals the merge rule applied key by key, for
\* every base dict and every overlay.
C22_DeepUpdateIsMergeRule ==
    merge.pc \in {"once", "twice"} => merge.once = RefMerge(merge.d, merge.u)

\* C22 witness: one result in which a key kept its base value, a key took a
\* dict merged from both sides, and nothing else changed.
C22_Witness ==
    /\ merge.pc = "once"
    /\ merge.d = Dict([k \in Keys |->
            IF k = "a" THEN Dict([x \in {"a"} |-> Scalar(1)]) ELSE Scalar(2)])
    /\ merge.u = Dict([k \in {"a"} |-> Dict([x \in {"b"} |-> Scalar(2)])])
    /\ merge.once = Dict([k \in Keys |->
            IF k = "a" THEN Dict([x \in Keys |-> IF x = "a" THEN Scalar(1) ELSE Scalar(2)])
            ELSE Scalar(2)])

\* C23: extract_document never raises.  Whenever one of its steps has raised,
\* the call has returned a record with status error to run_extraction, which
\* goes on with its next statement; when the step was building the chunks,
\* storing the chunk archive, obtaining the agent or calling the backend, no
\* result record is stored for the document; and the embedding of the same
\* document is not brought down by it: it fails only through a fault of its own.
C23_ExtractNeverRaises ==
    \A c \in Calls :
        /\ extRet[c] = "error" =>
              /\ ext[c] \in {"phase_emb", "meta", "done"}
              /\ ext[c] # "done" => extError[c] \in ExtractSteps \cup {CleanupStep}
              /\ docType[c] = ""
              /\ emb[c] = "failed" => faults >= 2
        /\ extError[c] # "" => extRet[c] = "error"
        /\ extError[c] \in ExtractSteps => ~resultFile[Id(c)].present

\* C23 witness: the backend call raised and extract_document has returned the
\* error record to run_extraction, no record is stored, and the nodes of the
\* document are in the index and persisted.
C23_Witness ==
    \E c \in Calls :
        /\ extError[c] = "backend"
        /\ ext[c] = "meta"
        /\ ~resultFile[Id(c)].present
        /\ emb[c] = "done"
        /\ index[Id(c)] >= 1

\* A step of the document's background task has raised: in save_task, in the
\* extraction or in the embedding.
Faulted(c) == taskFault[c] # "none" \/ extRet[c] = "error" \/ emb[c] = "failed"

\* Positions of save_task inside "with self._rag_thread_lock".
InRagLock == {"recon_check", "recon_query", "recon_write", "recon_completed",
              "recon_except"}

\* C24: background failures stay with their document.  A lock is held only by
\* a task inside the with statement that took it, so a task that raised while
\* holding the index lock or the reconciliation lock has released it when it
\* leaves the block and no other task waits for it in vain; the documents
\* whose tasks failed are never more than the faults that occurred, so one
\* fault never fails a second document; the error phase is written only for a
\* document whose own parsing raised; and the submitting call of neither
\* document raises.
C24_FailuresIsolated ==
    /\ \A c \in Calls :
          /\ indexLock = c => task[c] = "parse"
          /\ ragLock = c => task[c] \in InRagLock
          /\ call[c] # "raised"
          /\ (callId[c] # 0 /\ "error" \in Written(Id(c))) => taskFault[c] = "parse"
    /\ Cardinality({c \in Calls : Faulted(c)}) <= faults

\* C24 witness: one document's parsing raised under the index lock and its
\* task has ended, and the other document's task has ended with phase
\* completed, its nodes in the index and no fault of its own.
C24_Witness ==
    \E c, o \in Calls :
        /\ c # o
        /\ taskFault[c] = "parse"
        /\ task[c] = "done"
        /\ task[o] = "done"
        /\ ~Faulted(o)
        /\ phaseLog[Id(o)] # <<>>
        /\ Last(phaseLog[Id(o)]) = "completed"
        /\ "error" \notin Written(Id(o))
        /\ index[Id(o)] >= 1

\* Files of call c whose documents were put on doc_q: the parsed files of a
\* bulk_ingest, the file of an ingest that has content.
Submitted(c) ==
    IF bulk[c].files > 0 THEN Puts(c)
    ELSE IF chunks[c] > 0 /\ sync[c] \notin {"idle", "parse"} THEN 1 ELSE 0

\* C25 as stated: when a call of the staged pipeline has returned and fewer
\* nodes of it are in the index than files of it were put on doc_q (the
\* documents or nodes of a parsed file were discarded), a report was logged.
C25_EveryDropReported ==
    \A c \in Calls :
        (PipelineReturned(c) /\ index[Id(c)] < Submitted(c)) =>
            writer.reported >= 1

\* Parsing, extraction and embedding of the submission succeeded with at least
\* one node, and its background task has finished.
Succeeded(c) ==
    /\ task[c] = "done"
    /\ chunks[c] > 0
    /\ taskFault[c] # "parse"
    /\ extRet[c] = "completed"
    /\ emb[c] = "done"

\* C26 as stated: after a submission whose parsing, extraction and embedding
\* succeeded, the record stored under the id of the returned handle has status
\* completed and the index holds at least one node of that id.
C26_SuccessLeavesRecordAndNodes ==
    \A c \in Calls :
        Succeeded(c) =>
            /\ resultFile[Id(c)].present
            /\ resultFile[Id(c)].status = "completed"
            /\ index[Id(c)] >= 1

\* run_extraction is at the loop that sets extraction, extraction_id and
\* document_type in the metadata of the documents.
MetadataWriting(c) ==
    ext[c] = "meta" /\ extRet[c] = "completed" /\ chunks[c] > 0

\* run_embedding is at a statement that reads the documents: run_transformations
\* copies their metadata into the nodes, set_document_hash reads document.hash.
DocumentsInUse(c) == emb[c] \in {"transform", "save"}

\* C27 as stated: the extraction branch never writes the metadata of the
\* documents while the embedding branch reads or transforms the same documents.
C27_MetadataAccessExclusive ==
    \A c \in Calls : ~(MetadataWriting(c) /\ DocumentsInUse(c))

\* The threads of call c that are at an update_phase call for its document id:
\* save_task, run_extraction, run_embedding.
PhaseWriters(c) ==
    (IF task[c] \in {"phase_parsing", "phase_rag", "recon_completed",
                     "recon_except", "outer_except", "finally"}
     THEN {"save_task"} ELSE {})
    \cup (IF ext[c] \in {"phase_ext", "phase_emb"} THEN {"run_extraction"} ELSE {})
    \cup (IF emb[c] = "phase_emb" THEN {"run_embedding"} ELSE {})

\* C28 as stated: at no time are two threads at an update_phase call for the
\* same document id.
C28_PhaseUpdatesOrdered ==
    \A c \in Calls : Cardinality(PhaseWriters(c)) <= 1

AsExtracted(i) == resultFile[i] \in {NoFile, StoredRecord(TRUE), StoredRecord(FALSE)}

\* C30: in one reconciliation pass the record is rewritten at most once, and
\* only after every batch of missing fields was asked and answered without a
\* fault, with the accumulated answers; while batches are outstanding the
\* record is as extract_document stored it, and a pass that found no missing
\* field (no query made) leaves it so.
C30_RecordWrittenOnceAfterBatches ==
    \A c \in Calls : callId[c] # 0 =>
        LET i == Id(c)
        IN /\ reconWrites[i] <= 1
           /\ reconWrites[i] = 1 =>
                 /\ pending[c] = 0
                 /\ ragCalls[i] # <<>>
                 /\ Len(ragCalls[i]) =
                       (IF mode = "simple" THEN CeilBatches(MissingFields(c)) ELSE 1)
                 /\ taskFault[c] = "none"
                 /\ task[c] \in {"recon_completed", "finally", "done"}
                 /\ resultFile[i].merged <= MissingFields(c)
           /\ ~AsExtracted(i) =>
                 /\ pending[c] = 0
                 /\ ragCalls[i] # <<>>
                 /\ task[c] \in {"recon_completed", "recon_except", "finally", "done"}
           /\ task[c] \in {"recon_check", "recon_query", "recon_write"} =>
                 reconWrites[i] = 0 /\ AsExtracted(i)
           /\ ragCalls[i] = <<>> => reconWrites[i] = 0 /\ AsExtracted(i)

\* C30 witness: three batches were asked for 25 missing fields, their answers
\* were accumulated and the record was rewritten once with them; and the pass
\* has ended.
C30_Witness ==
    \E c \in Calls :
        /\ callId[c] # 0
        /\ task[c] = "done"
        /\ Len(ragCalls[Id(c)]) = 3
        /\ reconWrites[Id(c)] = 1
        /\ resultFile[Id(c)].merged > RagBatchSize

\* ---------------------------------------------------------------- C31

\* extract_document of call c is between its start and its return: the window
\* in which it writes result.json of the call's document.
ExtractWriting(c) == ext[c] = "extract"

\* The reconciliation block of call c is between json.load of the record and
\* the end of json.dump: its read-modify-write of result.json.
ReconRewriting(c) == task[c] \in ReconWork

\* The calls with a write of the record of document i in flight.
RecordWriters(i) ==
    {c \in Calls : Id(c) = i /\ (ExtractWriting(c) \/ ReconRewriting(c))}

\* C31: for every document id at most one write of its result record is in
\* flight: no two calls work on the same id, and within a call the
\* read-modify-write of reconciliation starts only after the extraction branch,
\* and with it the write by extract_document, has ended.
C31_OneRecordWriterPerId ==
    /\ \A i \in Ids : Cardinality(RecordWriters(i)) <= 1
    /\ \A c \in Calls :
          /\ ~(ExtractWriting(c) /\ ReconRewriting(c))
          /\ ReconRewriting(c) => Terminated(ext[c])
          /\ ExtractWriting(c) => reconWrites[Id(c)] = 0 /\ ragCalls[Id(c)] = <<>>

\* C31 witness: reconciliation is about to rewrite the record the extraction
\* branch of its call stored, while the extraction of another document is
\* writing its own record.
C31_Witness ==
    \E c, d \in Calls :
        /\ c # d
        /\ task[c] = "recon_write"
        /\ ext[c] = "done"
        /\ resultFile[Id(c)].present
        /\ ExtractWriting(d)
        /\ Id(d) # Id(c)

\* ---------------------------------------------------------------- C32

\* C32: reconciliation is over before the document is marked complete: every
\* step that changes the result record of a document, or counts a rewrite of
\* it by the reconciliation block, is taken while no completed phase has been
\* written for that document.
C32_NoRewriteAfterCompleted ==
    [][\A i \in Ids :
          (resultFile'[i] # resultFile[i] \/ reconWrites'[i] # reconWrites[i])
              => ~("completed" \in Written(i))]_vars

\* C32 witness: the reconciliation block has merged fields into the record of
\* a document and the task then marked the document completed and ended.
C32_Witness ==
    \E c \in Calls :
        /\ task[c] = "done"
        /\ reconWrites[Id(c)] = 1
        /\ resultFile[Id(c)].merged >= 1
        /\ Last(phaseLog[Id(c)]) = "completed"

\* ---------------------------------------------------------------- C33

\* The update_phase calls of a save_task none of whose collaborators failed,
\* in the two orders the branch threads can make theirs.
CleanRunLogs ==
    {<<"parsing", "extraction", "embedding", "rag", "completed", "completed">>,
     <<"parsing", "embedding", "extraction", "rag", "completed", "completed">>}

\* Call c met no abnormal collaborator: nothing raised, the parser returned
\* chunks and the extraction backend returned a result with content.
CleanRun(c) == ~Faulted(c) /\ chunks[c] > 0 /\ ~resultFile[Id(c)].empty

\* A step of call c in which wait_for_document_entry returns.
PollEnds(c) == task[c] = "poll" /\ task'[c] # "poll"

\* C33: the parsing phase is written only once the existence poll is over,
\* and the poll is over only when the entry was found or the bounded number of
\* iterations is used up; the poll always ends; and a poll that ends by timeout
\* continues at the same statement as one that found the entry, without a
\* fault recorded, so that a task none of whose collaborators failed makes the
\* same phase writes, stores a record and inserts its nodes whether or not an
\* entry existed.
C33_ParsingAfterBoundedPoll ==
    /\ [][\A c \in Calls :
            /\ PollEnds(c) =>
                  /\ entry[Id(c)] \/ polls[c] >= MaxPolls
                  /\ task'[c] = "phase_parsing"
                  /\ taskFault'[c] = "none"
            /\ (Started(c) /\ phaseLog[Id(c)] = <<>> /\ phaseLog'[Id(c)] # <<>>) =>
                  task[c] = "phase_parsing" /\ phaseLog'[Id(c)] = <<"parsing">>]_vars
    /\ [](\A c \in Calls :
            /\ task[c] = "poll" =>
                  /\ phaseLog[Id(c)] = <<>>
                  /\ polls[c] <= MaxPolls
                  /\ ENABLED TaskPoll(c)
            /\ (task[c] = "done" /\ CleanRun(c)) =>
                  /\ phaseLog[Id(c)] \in CleanRunLogs
                  /\ resultFile[Id(c)].status = "completed"
                  /\ persisted[Id(c)] >= 1)
    /\ <>[](\A c \in Calls : task[c] # "poll")

\* C33 witness: a task whose poll timed out, and whose document never got an
\* entry, has finished after the same phase writes as a task with an entry.
C33_Witness ==
    \E c \in Calls :
        /\ task[c] = "done"
        /\ ~entry[Id(c)]
        /\ CleanRun(c)
        /\ phaseLog[Id(c)] \in CleanRunLogs
        /\ persisted[Id(c)] >= 1

\* ---------------------------------------------------------------- C34

\* The calls a pool has received when it was drained, joined and terminated.
TornDown == <<"create", "close", "join", "terminate">>

\* C34: once the orchestrator has shut a component down, every worker pool the
\* component created has been closed, joined and terminated.
C34_PoolsTornDownOnShutdown ==
    pool.life = "gone" => \A p \in CreatedPools(mode) : pool.ops[p] = TornDown

\* ---------------------------------------------------------------- C35

\* The items of doc_q that were put and not yet marked done by the code's own
\* account: those queued, the process command the dispatcher holds, and the
\* units running in the pool.
DocQOutstanding == Len(docQ) + (IF dispItem # 0 THEN 1 ELSE 0) + InPool

\* C35: every item of doc_q and of node_q is marked done exactly once.  The
\* count of unfinished tasks of each queue equals the number of its items that
\* are queued or being processed, so it is never negative and is zero exactly
\* when there is none; a step lowers doc_q's count by one, and it is either the
\* dispatcher taking a flush command or a worker ending after it put its
\* nodes on node_q or its computation raised; a step lowers node_q's count by
\* one, and it is the writer having handled the item it took.
C35_ItemsDoneExactlyOnce ==
    /\ [](/\ docUnfinished = DocQOutstanding
          /\ nodeUnfinished = Len(nodeQ)
          /\ docUnfinished >= 0
          /\ nodeUnfinished >= 0)
    /\ [][/\ docUnfinished' < docUnfinished =>
                /\ docUnfinished' = docUnfinished - 1
                /\ \/ /\ docQ # <<>>
                      /\ Head(docQ).cmd # "process"
                      /\ docQ' = Tail(docQ)
                      /\ UNCHANGED <<dispItem, jobs>>
                   \/ /\ InPool' = InPool - 1
                      /\ UNCHANGED <<docQ, dispItem>>
                      /\ \/ Len(nodeQ') = Len(nodeQ) + 1
                         \/ faults' = faults + 1 /\ UNCHANGED nodeQ
          /\ nodeUnfinished' < nodeUnfinished =>
                /\ nodeUnfinished' = nodeUnfinished - 1
                /\ nodeQ # <<>>
                /\ nodeQ' = Tail(nodeQ)
                /\ writer'.handled = writer.handled + 1]_vars

\* C35 witness: a bulk_ingest has returned after one of its units raised in
\* the pool, and both counts are back to zero with both queues empty.
C35_Witness ==
    \E c \in Calls :
        /\ PipelineReturned(c)
        /\ bulk[c].files > 1
        /\ index[Id(c)] < Submitted(c)
        /\ writer.reported = 0
        /\ writer.handled >= 2
        /\ docUnfinished = 0
        /\ nodeUnfinished = 0
        /\ docQ = <<>> /\ nodeQ = <<>>

\* ---------------------------------------------------------------- C36

\* C36: the pipeline does not deadlock.  While a call of ingest or bulk_ingest
\* is in progress some thread of the pipeline can take a step, so caller,
\* dispatcher, workers and writer are never all blocked; and under a fair
\* scheduler every call ends: it returns, or ingest passes a parse failure on
\* to its caller.
C36_PipelineDeadlockFree ==
    /\ []((\E c \in Calls : call[c] = "started") => ENABLED PipeStep)
    /\ <>[](\A c \in Calls : call[c] # "started")

\* C36 witness: the caller waits to put on a full doc_q, the dispatcher holds
\* a unit and waits for a permit, every permit is taken and node_q is full.
C36_Witness ==
    /\ mode = "pipeline"
    /\ sync[1] = "bulk_put"
    /\ Len(docQ) = DocQCapacity
    /\ dispItem # 0
    /\ sem = 0
    /\ Len(nodeQ) = NodeQCapacity

\* ---------------------------------------------------------------- C37

\* len(doc_stack)
DocsAccumulated == SumOver(docStack, Calls)

\* C37: whenever the writer waits for its next command, fewer than
\* NODE_FLUSH_COUNT nodes are accumulated, and a file with accumulated nodes
\* or documents is in the file list; a flush or quit command leaves the three
\* accumulators empty, and when nodes or documents were pending it saved them:
\* the test of the file list skipped nothing.
C37_AccumulatorsConsistent ==
    /\ [](/\ Accumulated < NODE_FLUSH_COUNT
          /\ \A c \in Calls :
                (nodeStack[c] > 0 \/ docStack[c] > 0) => c \in fileStack)
    /\ [][(WriterHandles("flush") \/ WriterHandles("quit")) =>
            /\ Accumulated' = 0
            /\ DocsAccumulated' = 0
            /\ fileStack' = {}
            /\ (Accumulated > 0 \/ DocsAccumulated > 0) =>
                  /\ writer'.flushes = writer.flushes + 1
                  /\ \A c \in Calls :
                        writer'.passed[c] = writer.passed[c] + nodeStack[c]]_vars

\* C37 witness: the writer accumulated the nodes and documents of a file one
\* node short of the threshold, then a quit command saved them and left the
\* accumulators empty.
C37_Witness ==
    /\ ~writer.running
    /\ writer.handled = 2
    /\ writer.flushes = 1
    /\ writer.taken[1] = NODE_FLUSH_COUNT - 1
    /\ writer.passed[1] = NODE_FLUSH_COUNT - 1
    /\ Accumulated = 0
    /\ DocsAccumulated = 0
    /\ fileStack = {}

\* ---------------------------------------------------------------- C38

\* The step is one in which the reconciliation block of call c catches an
\* exception.
ReconRaises(c) == taskFault[c] = "none" /\ taskFault'[c] = "recon"

\* C38: when the detection of missing fields, a batch query or the merge
\* raises, the record of the document stays as extract_document stored it,
\* answers of earlier batches included: the step that raises changes nothing in
\* the record and no rewrite is counted, before or after it.  The one step
\* that can leave another record is a failing json.dump of the rewrite itself,
\* after open has emptied the file.
C38_ReconFaultLeavesRecord ==
    /\ [][\A c \in Calls : ReconRaises(c) =>
            /\ reconWrites[Id(c)] = 0
            /\ UNCHANGED reconWrites
            /\ \/ UNCHANGED resultFile
               \/ /\ task[c] = "recon_write"
                  /\ resultFile' = [resultFile EXCEPT ![Id(c)] = Truncated]]_vars
    /\ [](\A c \in Calls :
            (taskFault[c] = "recon" /\ resultFile[Id(c)] # Truncated) =>
                /\ AsExtracted(Id(c))
                /\ reconWrites[Id(c)] = 0)

\* C38 witness: the first batch query returned, the second raised, and the
\* task ended with the record as the extraction stored it.
C38_Witness ==
    \E c \in Calls :
        /\ mode = "simple"
        /\ task[c] = "done"
        /\ taskFault[c] = "recon"
        /\ Len(ragCalls[Id(c)]) = 2
        /\ resultFile[Id(c)] = StoredRecord(FALSE)
        /\ reconWrites[Id(c)] = 0

\* ---------------------------------------------------------------- C39

\* A fault was raised inside the extraction branch or the embedding branch of
\* call c.
BranchFault(c) == extRet[c] = "error" \/ emb[c] = "failed"

\* The task of call c has left the join.
PastJoin(c) == task[c] \in AfterJoin \cup {"finally", "done"}

\* C39: a fault inside the extraction or the embedding branch never produces
\* an error phase write: the join returns once both branches have ended, the
\* task then writes phase rag, and it ends with phase completed as the last
\* write, with nodes of the document in the index or without any.
C39_BranchFaultNoErrorPhase ==
    \A c \in Calls :
        (Started(c) /\ BranchFault(c)) =>
            /\ ~("error" \in Written(Id(c)))
            /\ taskFault[c] # "parse"
            /\ (task[c] = "join" /\ Joined(c)) => ENABLED TaskJoin(c)
            /\ task[c] = "phase_rag" => ENABLED TaskPhaseRag(c)
            /\ (PastJoin(c) /\ task[c] # "phase_rag") => "rag" \in Written(Id(c))
            /\ task[c] = "done" => Last(phaseLog[Id(c)]) = "completed"

\* C39 witness: the embedding branch raised before any node was inserted, and
\* the task wrote rag and ended with completed.
C39_Witness ==
    \E c \in Calls :
        /\ task[c] = "done"
        /\ emb[c] = "failed"
        /\ index[Id(c)] = 0
        /\ "rag" \in Written(Id(c))
        /\ Last(phaseLog[Id(c)]) = "completed"
        /\ ~("error" \in Written(Id(c)))
====
